---- MODULE Spec2Model ----
(***************************************************************************)
(* A model of the synchronisation core of spatialos-specs:                 *)
(*   - the replication state cell   SpatialComponent<T>   (src/src/lib.rs) *)
(*   - the command request ledger   CommandRequestsComp<T>                 *)
(*   - the command response correlator CommandSenderRes<T>                 *)
(*                                              (src/src/commands.rs)      *)
(* The component type of the cell is the generated component Player        *)
(* (src/example/src/generated.rs), whose data has the two fields name and  *)
(* current_direction.                                                      *)
(***************************************************************************)
EXTENDS Integers, Sequences, FiniteSets, TLC

(***************************************************************************)
(* Bounds of the model.                                                    *)
(***************************************************************************)
\* send_update calls on one cell between two flushes
MaxUpdates == 3

\* inbound command requests delivered in a run
MaxRequests == 3

\* send_command calls in a run
MaxCommands == 3

\* the send_command calls, and the inbound command requests, of a run of the
\* dispatcher
MaxTrafficCommands == 2

MaxTrafficRequests == 1

\* the number of register_component calls
MaxRegistrations == 4

\* the number of command requests that arrive over the frames
MaxFrameRequests == 2

\* the number of ops in a batch the reader processes
MaxBatch == 2

(***************************************************************************)
(* Option<T>: None is the empty sequence, Some(v) the one-element sequence.*)
(***************************************************************************)
None == <<>>

Some(v) == <<v>>

Max(S) == CHOOSE x \in S : \A y \in S : y <= x

\* the order in which the join over the storage visits the entities: by index
RECURSIVE JoinOrder(_)
JoinOrder(S) ==
    IF S = {} THEN <<>>
    ELSE LET e == CHOOSE x \in S : \A y \in S : x <= y
         IN  <<e>> \o JoinOrder(S \ {e})

RECURSIVE Concat(_)
Concat(seqs) == IF seqs = <<>> THEN <<>> ELSE Head(seqs) \o Concat(Tail(seqs))

(***************************************************************************)
(* A SchemaObject: per field id, the entries added to the field, in order. *)
(***************************************************************************)
EmptySchemaObject == [f1 |-> <<>>, f2 |-> <<>>]

(***************************************************************************)
(* The component Player (ID 1002) and its update type PlayerUpdate.        *)
(***************************************************************************)
Player_ID == 1002

Names == {"A", "B"}

Directions == {0, 1}

OptionOf(S) == {None} \cup {Some(v) : v \in S}

Player == [name : Names, current_direction : Directions]

PlayerUpdate == [name : OptionOf(Names), current_direction : OptionOf(Directions)]

\* impl TypeConversion for Player: to_type adds both fields
Player_to_type(input, output) ==
    [output EXCEPT !.f1 = Append(@, input.name),
                   !.f2 = Append(@, input.current_direction)]

\* impl TypeConversion for PlayerUpdate: from_type sets a field whose count is > 0
PlayerUpdate_from_type(input) ==
    [name              |-> IF Len(input.f1) > 0 THEN Some(input.f1[1]) ELSE None,
     current_direction |-> IF Len(input.f2) > 0 THEN Some(input.f2[1]) ELSE None]

\* impl ComponentData<Player> for Player: merge
Player_merge_dropping_direction(self, update) ==
    [name              |-> IF update.name # None THEN update.name[1] ELSE self.name,
     current_direction |-> self.current_direction]

Player_merge(self, update) ==
    [name              |-> IF update.name # None
                           THEN update.name[1] ELSE self.name,
     current_direction |-> IF update.current_direction # None
                           THEN update.current_direction[1] ELSE self.current_direction]

\* impl ComponentUpdate<Player> for PlayerUpdate: merge
PlayerUpdate_merge_first_writer_wins(self, update) ==
    [name              |-> IF self.name = None THEN update.name ELSE self.name,
     current_direction |-> IF self.current_direction = None
                           THEN update.current_direction ELSE self.current_direction]

PlayerUpdate_merge(self, update) ==
    [name              |-> IF update.name # None THEN update.name ELSE self.name,
     current_direction |-> IF update.current_direction # None
                           THEN update.current_direction ELSE self.current_direction]

(***************************************************************************)
(* The component EntityAcl (ID 50) and its update type EntityAclUpdate.    *)
(* A WorkerRequirementSet is taken as a whole; a BTreeMap is the set of    *)
(* its <<key, value>> entries, no key twice.                               *)
(***************************************************************************)
EntityAcl_ID == 50

WorkerRequirementSet == {"server", "client"}

AclKeys == {Player_ID}

BTreeMaps ==
    {m \in SUBSET (AclKeys \X WorkerRequirementSet) :
        \A x \in m, y \in m : x[1] = y[1] => x = y}

EntityAcl == [read_acl : WorkerRequirementSet, component_write_acl : BTreeMaps]

EntityAclUpdate ==
    [read_acl : OptionOf(WorkerRequirementSet), component_write_acl : OptionOf(BTreeMaps)]

\* the entries of a BTreeMap in the order its iterator yields them: by key
RECURSIVE Entries(_)
Entries(m) ==
    IF m = {} THEN <<>>
    ELSE LET first == CHOOSE x \in m : \A y \in m : x[1] <= y[1]
         IN  <<first>> \o Entries(m \ {first})

\* BTreeMap::insert: the entry replaces the one with its key
Insert(m, kv) == {x \in m : x[1] # kv[1]} \cup {kv}

\* the map built by inserting the entries of a schema field one by one
RECURSIVE Collect(_)
Collect(entries) ==
    IF entries = <<>> THEN {}
    ELSE Insert(Collect(SubSeq(entries, 1, Len(entries) - 1)), entries[Len(entries)])

\* impl TypeConversion for EntityAcl: to_type adds read_acl once, and one entry
\* per entry of component_write_acl
EntityAcl_to_type(input, output) ==
    [output EXCEPT !.f1 = Append(@, input.read_acl),
                   !.f2 = @ \o Entries(input.component_write_acl)]

\* impl TypeConversion for EntityAclUpdate: from_type sets a field whose count is > 0
EntityAclUpdate_from_type(input) ==
    [read_acl            |-> IF Len(input.f1) > 0 THEN Some(input.f1[1]) ELSE None,
     component_write_acl |-> IF Len(input.f2) > 0 THEN Some(Collect(input.f2)) ELSE None]

\* impl ComponentData<EntityAcl> for EntityAcl: merge
EntityAcl_merge(self, update) ==
    [read_acl            |-> IF update.read_acl # None
                             THEN update.read_acl[1] ELSE self.read_acl,
     component_write_acl |-> IF update.component_write_acl # None
                             THEN update.component_write_acl[1]
                             ELSE self.component_write_acl]

\* impl ComponentUpdate<EntityAcl> for EntityAclUpdate: merge
EntityAclUpdate_merge(self, update) ==
    [read_acl            |-> IF update.read_acl # None
                             THEN update.read_acl ELSE self.read_acl,
     component_write_acl |-> IF update.component_write_acl # None
                             THEN update.component_write_acl
                             ELSE self.component_write_acl]

(***************************************************************************)
(* The component PlayerCreator (ID 1001): the struct and its update have   *)
(* no fields.                                                              *)
(***************************************************************************)
PlayerCreator_ID == 1001

PlayerCreator == {"PlayerCreator"}

PlayerCreatorUpdate == {"PlayerCreatorUpdate"}

\* impl TypeConversion for PlayerCreator: to_type adds nothing
PlayerCreator_to_type(input, output) == output

\* impl TypeConversion for PlayerCreatorUpdate: from_type reads nothing
PlayerCreatorUpdate_from_type(input) == "PlayerCreatorUpdate"

PlayerCreator_merge(self, update) == self

PlayerCreatorUpdate_merge(self, update) == self

(***************************************************************************)
(* What SpatialComponent<T> uses of its component type T, by T::ID.        *)
(***************************************************************************)
\* the values of T
Data(T) ==
    CASE T = Player_ID        -> Player
      [] T = PlayerCreator_ID -> PlayerCreator
      [] T = EntityAcl_ID     -> EntityAcl

\* T::Update
Update(T) ==
    CASE T = Player_ID        -> PlayerUpdate
      [] T = PlayerCreator_ID -> PlayerCreatorUpdate
      [] T = EntityAcl_ID     -> EntityAclUpdate

\* the fields of T
Fields(T) ==
    CASE T = Player_ID        -> {"name", "current_direction"}
      [] T = PlayerCreator_ID -> {}
      [] T = EntityAcl_ID     -> {"read_acl", "component_write_acl"}

\* T::to_type
to_type(T, input, output) ==
    CASE T = Player_ID        -> Player_to_type(input, output)
      [] T = PlayerCreator_ID -> PlayerCreator_to_type(input, output)
      [] T = EntityAcl_ID     -> EntityAcl_to_type(input, output)

\* T::Update::from_type
from_type(T, input) ==
    CASE T = Player_ID        -> PlayerUpdate_from_type(input)
      [] T = PlayerCreator_ID -> PlayerCreatorUpdate_from_type(input)
      [] T = EntityAcl_ID     -> EntityAclUpdate_from_type(input)

\* ComponentData<T>::merge
merge(T, self, update) ==
    CASE T = Player_ID        -> Player_merge(self, update)
      [] T = PlayerCreator_ID -> PlayerCreator_merge(self, update)
      [] T = EntityAcl_ID     -> EntityAcl_merge(self, update)

\* ComponentUpdate<T>::merge
merge_update(T, self, update) ==
    CASE T = Player_ID        -> PlayerUpdate_merge(self, update)
      [] T = PlayerCreator_ID -> PlayerCreatorUpdate_merge(self, update)
      [] T = EntityAcl_ID     -> EntityAclUpdate_merge(self, update)

(***************************************************************************)
(* SpatialComponent<T>: the replication state cell, as a record            *)
(*   [value, value_is_dirty, current_update].                              *)
(***************************************************************************)
new(value) ==
    [value |-> value, value_is_dirty |-> FALSE, current_update |-> None]

\* the value is written to a fresh schema object and read back as an update
to_update(T, self) ==
    from_type(T, to_type(T, self.value, EmptySchemaObject))

\* replicate returns the cell after the call and the updates handed to
\* connection.send_component_update, in order
replicate_keeping_dirty(T, self) ==
    IF self.value_is_dirty
    THEN [cell |-> self, transmitted |-> <<to_update(T, self)>>]
    ELSE [cell |-> [self EXCEPT !.current_update = None],
          transmitted |-> IF self.current_update # None
                          THEN <<self.current_update[1]>> ELSE <<>>]

replicate_keeping_pending(T, self) ==
    IF self.value_is_dirty
    THEN [cell |-> [self EXCEPT !.value_is_dirty = FALSE],
          transmitted |-> <<to_update(T, self)>>]
    ELSE [cell |-> self,
          transmitted |-> IF self.current_update # None
                          THEN <<self.current_update[1]>> ELSE <<>>]

replicate_sending_whole_value(T, self) ==
    IF self.value_is_dirty \/ self.current_update # None
    THEN [cell |-> [self EXCEPT !.value_is_dirty = FALSE, !.current_update = None],
          transmitted |-> <<to_update(T, self)>>]
    ELSE [cell |-> self, transmitted |-> <<>>]

replicate(T, self) ==
    LET update == IF self.value_is_dirty
                  THEN Some(to_update(T, self))
                  ELSE self.current_update
        after  == IF self.value_is_dirty
                  THEN [self EXCEPT !.value_is_dirty = FALSE]
                  ELSE [self EXCEPT !.current_update = None]
    IN  [cell |-> after,
         transmitted |-> IF update # None THEN <<update[1]>> ELSE <<>>]

apply_update_to_value_resetting_tracking(T, self, update) ==
    [self EXCEPT !.value = merge(T, @, update),
                 !.value_is_dirty = FALSE,
                 !.current_update = None]

apply_update_to_value(T, self, update) ==
    [self EXCEPT !.value = merge(T, @, update)]

\* the check at the head of send_update
send_update_panics_never(self) == FALSE

send_update_panics(self) == self.value_is_dirty

send_update(T, self, update) ==
    LET merged == apply_update_to_value(T, self, update)
    IN  [merged EXCEPT !.current_update =
            IF self.current_update # None
            THEN Some(merge_update(T, self.current_update[1], update))
            ELSE Some(update)]

\* the check at the head of deref_mut
deref_mut_panics_never(self) == FALSE

deref_mut_panics(self) == self.current_update # None

\* deref_mut marks the cell dirty and returns &mut value; written is the value
\* the caller leaves behind the reference
deref_mut(self, written) ==
    [self EXCEPT !.value_is_dirty = TRUE, !.value = written]

(***************************************************************************)
(* CommandRequestsComp<T>: the command request ledger of one entity, as a  *)
(* record [requests, responses].  A request is the tuple                   *)
(*   <<request_id, request, caller_worker_id, caller_attribute_set>>,      *)
(* a response the tuple <<request_id, response>>.                          *)
(* T is PlayerCreator, whose one command is CreatePlayer.                  *)
(***************************************************************************)
\* PlayerCreatorCommandRequest
CommandRequest == {[CreatePlayer |-> [name |-> n]] : n \in Names}

\* PlayerCreatorCommandResponse: CreatePlayerResponse has no fields
CommandResponse == {[CreatePlayer |-> "CreatePlayerResponse"]}

\* the callers of a command: worker id and attribute set
Callers == {<<"worker1", <<"server">>>>, <<"worker2", <<"client">>>>}

\* impl Default for CommandRequestsComp
CommandRequestsComp_default == [requests |-> <<>>, responses |-> <<>>]

on_request(self, request_id, request, caller_worker_id, caller_attribute_set) ==
    [self EXCEPT !.requests =
        Append(@, <<request_id, request, caller_worker_id, caller_attribute_set>>)]

\* respond with a responder that gives answers[i] for the i-th request it is
\* called on: the ledger after the first n requests have been drained
RECURSIVE respond_loop(_, _, _)
respond_loop(self, answers, n) ==
    IF n = 0 THEN [responses |-> self.responses, requests_left |-> <<>>]
    ELSE LET sofar == respond_loop(self, answers, n - 1)
             entry == self.requests[n]
         IN  IF answers[n] # None
             THEN [sofar EXCEPT !.responses = Append(@, <<entry[1], answers[n][1]>>)]
             ELSE [sofar EXCEPT !.requests_left = Append(@, entry)]

respond_keeping_answered(self, answers) ==
    [requests  |-> self.requests,
     responses |-> respond_loop(self, answers, Len(self.requests)).responses]

\* a sequence back to front
Reverse(seq) == [i \in 1..Len(seq) |-> seq[Len(seq) + 1 - i]]

respond_dropping_declined(self, answers) ==
    [requests  |-> <<>>,
     responses |-> respond_loop(self, answers, Len(self.requests)).responses]

respond_newest_first(self, answers) ==
    LET done == respond_loop(self, answers, Len(self.requests))
    IN  [requests  |-> Reverse(done.requests_left),
         responses |-> self.responses \o
                       Reverse(SubSeq(done.responses, Len(self.responses) + 1,
                                      Len(done.responses)))]

respond(self, answers) ==
    LET done == respond_loop(self, answers, Len(self.requests))
    IN  [requests |-> done.requests_left, responses |-> done.responses]

\* flush_responses returns the ledger after the call and the responses handed
\* to connection.send_command_response, in order
flush_responses_first_only(self) ==
    [comp |-> [self EXCEPT !.responses = IF @ = <<>> THEN <<>> ELSE Tail(@)],
     transmitted |-> IF self.responses = <<>> THEN <<>> ELSE <<Head(self.responses)>>]

flush_responses_keeping_queue(self) ==
    [comp |-> self, transmitted |-> self.responses]

flush_responses(self) ==
    [comp |-> [self EXCEPT !.responses = <<>>], transmitted |-> self.responses]

\* the storage of ledgers maps an entity to None or Some(ledger);
\* clear_empty_request_objects keeps the ledgers that hold a request
clear_empty_request_objects_keeping_unsent(storage) ==
    [e \in DOMAIN storage |->
        IF storage[e] # None /\ Len(storage[e][1].responses) > 0
        THEN storage[e] ELSE None]

clear_empty_request_objects_keeping_every_object(storage) == storage

clear_empty_request_objects(storage) ==
    [e \in DOMAIN storage |->
        IF storage[e] # None /\ Len(storage[e][1].requests) > 0
        THEN storage[e] ELSE None]

(***************************************************************************)
(* CommandSenderRes<T>: the command response correlator, as a record       *)
(*   [callbacks, buffered_requests].                                       *)
(* callbacks is a function from request ids to callbacks; a buffered       *)
(* request is the tuple <<entity_id, request, callback>>.  A callback      *)
(* given to send_command is known by the number of the call that gave it.  *)
(***************************************************************************)
\* the entities commands are sent to
TargetEntityIds == {1, 2}

\* StatusCode<CommandResponse>
StatusCode ==
    {<<"Success", r>> : r \in CommandResponse} \cup {<<"Timeout">>, <<"AuthorityLost">>}

\* impl Default for CommandSenderRes
CommandSenderRes_default == [callbacks |-> <<>>, buffered_requests |-> <<>>]

\* HashMap::insert and HashMap::remove
HashMap_insert(map, k, v) ==
    [x \in DOMAIN map \cup {k} |-> IF x = k THEN v ELSE map[x]]

HashMap_remove(map, k) == [x \in DOMAIN map \ {k} |-> map[x]]

send_command(self, entity_id, request, callback) ==
    [self EXCEPT !.buffered_requests = Append(@, <<entity_id, request, callback>>)]

\* the closure send_command boxes: what it passes to the caller's callback
intermediate_callback_always_err(callback, response_op) ==
    [callback |-> callback, value |-> <<"Err", response_op.response>>]

intermediate_callback(callback, response_op) ==
    [callback |-> callback,
     value    |-> IF response_op.response[1] = "Success"
                  THEN <<"Ok", response_op.response[2]>>
                  ELSE <<"Err", response_op.response>>]

\* got_command_response returns the correlator after the call and the
\* callback invocations it made, in order
got_command_response_keeping_callback(self, response_op) ==
    IF response_op.request_id \in DOMAIN self.callbacks
    THEN [sender  |-> self,
          invoked |-> <<intermediate_callback(self.callbacks[response_op.request_id],
                                              response_op)>>]
    ELSE [sender |-> self, invoked |-> <<>>]

got_command_response_forgetting_on_unknown(self, response_op) ==
    IF response_op.request_id \in DOMAIN self.callbacks
    THEN [sender  |-> [self EXCEPT !.callbacks = HashMap_remove(@, response_op.request_id)],
          invoked |-> <<intermediate_callback(self.callbacks[response_op.request_id],
                                              response_op)>>]
    ELSE [sender |-> [self EXCEPT !.callbacks = <<>>], invoked |-> <<>>]

got_command_response(self, response_op) ==
    IF response_op.request_id \in DOMAIN self.callbacks
    THEN [sender  |-> [self EXCEPT !.callbacks = HashMap_remove(@, response_op.request_id)],
          invoked |-> <<intermediate_callback(self.callbacks[response_op.request_id],
                                              response_op)>>]
    ELSE [sender |-> self, invoked |-> <<>>]

\* got_command_response where the callback, when it runs, fetches the
\* CommandSender and calls send_command for follow_up, a tuple
\* <<entity_id, request, callback>>: found is the correlator the callback finds
\* when it runs, None when no callback runs
got_command_response_sending_before_remove(self, response_op, follow_up) ==
    IF response_op.request_id \in DOMAIN self.callbacks
    THEN [found   |-> Some(self),
          sender  |-> [send_command(self, follow_up[1], follow_up[2], follow_up[3])
                          EXCEPT !.callbacks = HashMap_remove(@, response_op.request_id)],
          invoked |-> <<intermediate_callback(self.callbacks[response_op.request_id],
                                              response_op)>>]
    ELSE [found |-> None, sender |-> self, invoked |-> <<>>]

got_command_response_sending(self, response_op, follow_up) ==
    LET taken == got_command_response(self, response_op)
    IN  IF taken.invoked # <<>>
        THEN [found   |-> Some(taken.sender),
              sender  |-> send_command(taken.sender,
                                       follow_up[1], follow_up[2], follow_up[3]),
              invoked |-> taken.invoked]
        ELSE [found |-> None, sender |-> taken.sender, invoked |-> <<>>]

\* flush_requests, where the transport returns ids[i] from the i-th
\* send_command_request: the callbacks after the first n buffered requests
RECURSIVE flush_loop(_, _, _)
flush_loop(self, ids, n) ==
    IF n = 0 THEN self.callbacks
    ELSE HashMap_insert(flush_loop(self, ids, n - 1),
                        ids[n], self.buffered_requests[n][3])

\* what flush_requests hands to connection.send_command_request, in order, each
\* with the id the transport returned for it
flush_transmitted(self, ids) ==
    [i \in 1..Len(self.buffered_requests) |->
        <<ids[i], self.buffered_requests[i][1], self.buffered_requests[i][2]>>]

flush_requests_keeping_buffer(self, ids) ==
    [sender |-> [callbacks |-> flush_loop(self, ids, Len(self.buffered_requests)),
                 buffered_requests |-> self.buffered_requests],
     transmitted |-> flush_transmitted(self, ids)]

flush_requests_replacing_callbacks(self, ids) ==
    [sender |-> [callbacks |-> flush_loop([self EXCEPT !.callbacks = <<>>], ids,
                                          Len(self.buffered_requests)),
                 buffered_requests |-> <<>>],
     transmitted |-> flush_transmitted(self, ids)]

\* flush_requests returns the correlator after the call and what it transmitted
flush_requests(self, ids) ==
    [sender |-> [callbacks |-> flush_loop(self, ids, Len(self.buffered_requests)),
                 buffered_requests |-> <<>>],
     transmitted |-> flush_transmitted(self, ids)]

(***************************************************************************)
(* ComponentDispatcher<T>: the storage of the cells of T, a function from  *)
(* the entities to None or Some(cell), and the AuthorityBitSet<T>, the set *)
(* of the entities whose authority marker is set.  The reader gives the    *)
(* entity it creates for an entity id the WrappedEntityId of that id; the  *)
(* model names an entity by it.                                            *)
(***************************************************************************)
\* the entities of the world
DispatcherEntities == {1, 2}

\* the authority an AuthorityChangeOp carries
Authority == {"Authoritative", "NotAuthoritative"}

\* AuthorityBitSet::new
AuthorityBitSet_new == {}

\* AuthorityBitSet::set_authority
set_authority(bitset, entity, authority) ==
    IF authority = "Authoritative" THEN bitset \cup {entity} ELSE bitset \ {entity}

apply_authority_change(bitset, entity, authority_change) ==
    set_authority(bitset, entity, authority_change.authority)

\* add_component, where a cell the entity has keeps its flag and its update
add_component_keeping_tracking(storage, entity, data) ==
    [storage EXCEPT ![entity] =
        IF @ = None THEN Some(new(data)) ELSE Some([@[1] EXCEPT !.value = data])]

add_component(storage, entity, data) ==
    [storage EXCEPT ![entity] = Some(new(data))]

remove_component(storage, entity) ==
    [storage EXCEPT ![entity] = None]

\* the entities the join over the write storage yields: those that have a
\* cell and whose authority marker is set
join_write_storage(storage, bitset) ==
    {e \in DOMAIN storage : storage[e] # None /\ e \in bitset}

\* the first part of ComponentDispatcher::replicate: replicate on every cell
\* the join yields; the storage after it and the <<entity_id, update>> handed
\* to send_component_update, in order
replicate_joined(T, storage, joined) ==
    [storage |-> [e \in DOMAIN storage |->
                    IF e \in joined THEN Some(replicate(T, storage[e][1]).cell)
                                    ELSE storage[e]],
     transmitted |->
        Concat([i \in 1..Len(JoinOrder(joined)) |->
                  [k \in 1..Len(replicate(T, storage[JoinOrder(joined)[i]][1]).transmitted) |->
                      <<JoinOrder(joined)[i],
                        replicate(T, storage[JoinOrder(joined)[i]][1]).transmitted[k]>>]])]

replicate_cells_ignoring_authority(T, storage, bitset) ==
    replicate_joined(T, storage, {e \in DOMAIN storage : storage[e] # None})

replicate_cells(T, storage, bitset) ==
    replicate_joined(T, storage, join_write_storage(storage, bitset))

\* ComponentDispatcher::apply_component_update: the cell of the entity takes
\* the update; panics when the entity has no cell
apply_component_update_panics(storage, entity) == storage[entity] = None

apply_component_update(T, storage, entity, update) ==
    [storage EXCEPT ![entity] = Some(apply_update_to_value(T, storage[entity][1], update))]

(***************************************************************************)
(* ComponentRegistry: interfaces, the HashMap from component ids to        *)
(* dispatchers, as a record [interfaces, order].  interfaces is the        *)
(* function from the registered ids to their dispatchers; order is the     *)
(* sequence in which the HashMap yields its keys.  The order of a HashMap  *)
(* is arbitrary: it stays while the keys stay and may be any order of the  *)
(* keys once a key is added.                                               *)
(***************************************************************************)
\* the component ids of the schema
ComponentIds == {Player_ID, PlayerCreator_ID, EntityAcl_ID}

\* the orders in which a HashMap may yield the keys
Orders(keys) ==
    {order \in [1..Cardinality(keys) -> keys] :
        \A i, j \in 1..Cardinality(keys) : i # j => order[i] # order[j]}

\* impl Default for ComponentRegistry
ComponentRegistry_default == [interfaces |-> <<>>, order |-> <<>>]

\* ComponentDispatcher::<T> { _phantom: PhantomData }
ComponentDispatcher(T) == [component |-> T]

\* register_component, where the HashMap yields its keys in new_order once T
\* is a new key
register_component_moving_to_end(self, T, new_order) ==
    [interfaces |-> HashMap_insert(self.interfaces, T, ComponentDispatcher(T)),
     order      |-> Append(SelectSeq(self.order, LAMBDA id : id # T), T)]

register_component_unregistering_others(self, T, new_order) ==
    [interfaces |-> HashMap_insert(<<>>, T, ComponentDispatcher(T)),
     order      |-> <<T>>]

register_component(self, T, new_order) ==
    [interfaces |-> HashMap_insert(self.interfaces, T, ComponentDispatcher(T)),
     order      |-> IF T \in DOMAIN self.interfaces THEN self.order ELSE new_order]

get_interface_falling_back(self, component_id) ==
    IF component_id \in DOMAIN self.interfaces
    THEN Some(self.interfaces[component_id])
    ELSE Some(ComponentDispatcher(component_id))

\* get_interface: HashMap::get
get_interface(self, component_id) ==
    IF component_id \in DOMAIN self.interfaces
    THEN Some(self.interfaces[component_id])
    ELSE None

\* interfaces_iter: HashMap::values
interfaces_iter(self) ==
    [i \in 1..Len(self.order) |-> self.interfaces[self.order[i]]]

\* the registries setup leaves behind: Player and PlayerCreator are registered,
\* in either order
RegistryAfterSetup ==
    {register_component(register_component(ComponentRegistry_default,
                                           types[1], <<types[1]>>),
                        types[2], order) :
        types \in Orders({Player_ID, PlayerCreator_ID}),
        order \in Orders({Player_ID, PlayerCreator_ID})}

(***************************************************************************)
(* SpatialReader: process takes the batch of ops the connection delivers   *)
(* and applies each op to the world.  The world is the record              *)
(*   [spatial_to_specs_entity, entities, entity_id_storage, cells,         *)
(*    authoritative, panicked]:                                            *)
(* the reader's HashMap from entity ids to entities, the EntitiesRes as    *)
(* [created, killed] (the entities are numbered as they are created),      *)
(* the storage of WrappedEntityId, and the cells and the authority markers *)
(* of Player.  An op is a record with the fields of its WorkerOp; the      *)
(* field data, update or request is what get::<T>() returns for the        *)
(* payload, None when the payload does not decode.                         *)
(***************************************************************************)
\* the entity id the ops name
OpEntityIds == {1}

\* a kind of WorkerOp that carries neither an entity, a component nor a command
OtherOpKinds == {"Metrics"}

\* the value and the update the ops carry for the component type T
OpData(T) ==
    CASE T = Player_ID        -> [name |-> "A", current_direction |-> 0]
      [] T = PlayerCreator_ID -> "PlayerCreator"
      [] T = EntityAcl_ID     -> [read_acl |-> "server", component_write_acl |-> {}]

OpUpdate(T) ==
    CASE T = Player_ID        -> [name |-> Some("B"), current_direction |-> None]
      [] T = PlayerCreator_ID -> "PlayerCreatorUpdate"
      [] T = EntityAcl_ID     -> [read_acl |-> Some("client"),
                                  component_write_acl |-> None]

\* the ops on entities and components a batch is made of, where T is a
\* registered type and EntityAcl is not registered: the payload of an op that
\* adds the component T decodes or does not
WorldOps(T) ==
    [kind : {"AddEntity", "RemoveEntity"}, entity_id : OpEntityIds]
    \cup [kind : {"AddComponent"}, entity_id : OpEntityIds, component_id : {T},
          data : {Some(OpData(T)), None}]
    \cup [kind : {"AddComponent"}, entity_id : OpEntityIds,
          component_id : {EntityAcl_ID}, data : {Some(OpData(EntityAcl_ID))}]
    \cup [kind : {"RemoveComponent"}, entity_id : OpEntityIds,
          component_id : {T, EntityAcl_ID}]
    \cup {[kind |-> "ComponentUpdate", entity_id |-> id, component_id |-> C,
           update |-> Some(OpUpdate(C))] : id \in OpEntityIds, C \in {T, EntityAcl_ID}}
    \cup [kind : {"AuthorityChange"}, entity_id : OpEntityIds,
          component_id : {T, EntityAcl_ID}, authority : {"Authoritative"}]
    \cup [kind : OtherOpKinds]

\* the ops that create and destroy the cells of the type T
LifecycleOps(T) ==
    [kind : {"AddEntity", "RemoveEntity"}, entity_id : OpEntityIds]
    \cup [kind : {"AddComponent"}, entity_id : OpEntityIds, component_id : {T},
          data : {Some(OpData(T))}]
    \cup [kind : {"RemoveComponent"}, entity_id : OpEntityIds, component_id : {T}]
    \cup [kind : {"AuthorityChange"}, entity_id : OpEntityIds,
          component_id : {T}, authority : {"Authoritative"}]

\* the ops on commands a batch is made of, next to the op that adds the entity
OpRequestIds == {1, 2}

CommandOps(T) ==
    [kind : {"AddEntity"}, entity_id : OpEntityIds]
    \cup [kind : {"CommandRequest"}, entity_id : OpEntityIds, component_id : {T},
          request_id : {1},
          request : {Some([CreatePlayer |-> [name |-> "A"]])},
          caller : {<<"worker1", <<"server">>>>}]
    \cup [kind : {"CommandResponse"}, component_id : {T}, request_id : OpRequestIds,
          response : {<<"Success", [CreatePlayer |-> "CreatePlayerResponse"]>>,
                      <<"Timeout">>}]

\* EntitiesRes::create and EntitiesRes::delete
EntitiesRes_default == [created |-> 0, killed |-> {}]

create(self) == [self EXCEPT !.created = @ + 1]

delete(self, entity) == [self EXCEPT !.killed = @ \cup {entity}]

\* the arms of the match in process
process_add_entity(world, add_entity_op) ==
    LET entity == create(world.entities).created
    IN  [world EXCEPT
            !.entities = create(@),
            !.entity_id_storage = HashMap_insert(@, entity, add_entity_op.entity_id),
            !.spatial_to_specs_entity = HashMap_insert(@, add_entity_op.entity_id, entity)]

process_remove_entity(world, remove_entity_op) ==
    IF remove_entity_op.entity_id \notin DOMAIN world.spatial_to_specs_entity
    THEN [world EXCEPT !.panicked = TRUE]
    ELSE [world EXCEPT
            !.entities =
                delete(@, world.spatial_to_specs_entity[remove_entity_op.entity_id])]

process_add_component(registry, world, op) ==
    IF get_interface(registry, op.component_id) = None THEN world
    ELSE IF op.entity_id \notin DOMAIN world.spatial_to_specs_entity
         THEN [world EXCEPT !.panicked = TRUE]
    ELSE IF op.data = None
         THEN [world EXCEPT !.panicked = TRUE]
    ELSE [world EXCEPT !.cells =
            add_component(@, world.spatial_to_specs_entity[op.entity_id], op.data[1])]

process_remove_component(registry, world, op) ==
    IF get_interface(registry, op.component_id) = None THEN world
    ELSE IF op.entity_id \notin DOMAIN world.spatial_to_specs_entity
         THEN [world EXCEPT !.panicked = TRUE]
    ELSE [world EXCEPT !.cells =
            remove_component(@, world.spatial_to_specs_entity[op.entity_id])]

process_component_update_skipping_missing_cell(registry, world, op) ==
    IF get_interface(registry, op.component_id) = None THEN world
    ELSE IF op.entity_id \notin DOMAIN world.spatial_to_specs_entity
         THEN [world EXCEPT !.panicked = TRUE]
    ELSE IF op.update = None
         THEN [world EXCEPT !.panicked = TRUE]
    ELSE IF apply_component_update_panics(world.cells,
                world.spatial_to_specs_entity[op.entity_id])
         THEN world
    ELSE [world EXCEPT !.cells =
            apply_component_update(op.component_id, @,
                world.spatial_to_specs_entity[op.entity_id], op.update[1])]

process_component_update(registry, world, op) ==
    IF get_interface(registry, op.component_id) = None THEN world
    ELSE IF op.entity_id \notin DOMAIN world.spatial_to_specs_entity
         THEN [world EXCEPT !.panicked = TRUE]
    ELSE IF op.update = None
         THEN [world EXCEPT !.panicked = TRUE]
    ELSE IF apply_component_update_panics(world.cells,
                world.spatial_to_specs_entity[op.entity_id])
         THEN [world EXCEPT !.panicked = TRUE]
    ELSE [world EXCEPT !.cells =
            apply_component_update(op.component_id, @,
                world.spatial_to_specs_entity[op.entity_id], op.update[1])]

process_authority_change(registry, world, op) ==
    IF get_interface(registry, op.component_id) = None THEN world
    ELSE IF op.entity_id \notin DOMAIN world.spatial_to_specs_entity
         THEN [world EXCEPT !.panicked = TRUE]
    ELSE [world EXCEPT !.authoritative =
            apply_authority_change(@, world.spatial_to_specs_entity[op.entity_id], op)]

\* one turn of the loop of process: the match on the op
process_op(registry, world, op) ==
    CASE op.kind = "AddEntity"       -> process_add_entity(world, op)
      [] op.kind = "RemoveEntity"    -> process_remove_entity(world, op)
      [] op.kind = "AddComponent"    -> process_add_component(registry, world, op)
      [] op.kind = "RemoveComponent" -> process_remove_component(registry, world, op)
      [] op.kind = "ComponentUpdate" -> process_component_update(registry, world, op)
      [] op.kind = "AuthorityChange" -> process_authority_change(registry, world, op)
      [] OTHER                       -> world

\* the loop of process over the first n ops; a panic ends it
RECURSIVE process_loop(_, _, _, _)
process_loop(registry, world, ops, n) ==
    IF n = 0 THEN world
    ELSE LET sofar == process_loop(registry, world, ops, n - 1)
         IN  IF sofar.panicked THEN sofar ELSE process_op(registry, sofar, ops[n])

\* the entity ops of a batch, then its other ops
EntitiesFirst(ops) ==
    SelectSeq(ops, LAMBDA op : op.kind \in {"AddEntity", "RemoveEntity"}) \o
    SelectSeq(ops, LAMBDA op : op.kind \notin {"AddEntity", "RemoveEntity"})

process_entities_first(registry, world, ops) ==
    process_loop(registry, world, EntitiesFirst(ops), Len(ops))

process(registry, world, ops) == process_loop(registry, world, ops, Len(ops))

(***************************************************************************)
(* What the reader's properties are stated with.                           *)
(***************************************************************************)
\* the ops of a batch applied one by one, each as a batch of its own
RECURSIVE StepByStep(_, _, _)
StepByStep(registry, world, ops) ==
    IF ops = <<>> THEN world
    ELSE StepByStep(registry, process(registry, world, <<Head(ops)>>), Tail(ops))

\* the op reaches the dispatcher of its type, for an entity that has been
\* added, with a payload that does not decode
FailsToDecode(registry, world, o) ==
    /\ \/ o.kind = "AddComponent" /\ o.data = None
       \/ o.kind = "ComponentUpdate" /\ o.update = None
    /\ o.component_id \in DOMAIN registry.interfaces
    /\ o.entity_id \in DOMAIN world.spatial_to_specs_entity

\* the ops of a batch applied one by one, without those that fail to decode
RECURSIVE SkippingUndecodable(_, _, _)
SkippingUndecodable(registry, world, ops) ==
    IF ops = <<>> THEN world
    ELSE SkippingUndecodable(registry,
                             IF FailsToDecode(registry, world, Head(ops))
                             THEN world
                             ELSE process(registry, world, <<Head(ops)>>),
                             Tail(ops))

\* the op names a component type that is not registered, or is of another kind
Ignored(registry, o) ==
    \/ /\ o.kind \in {"AddComponent", "RemoveComponent", "ComponentUpdate",
                      "AuthorityChange"}
       /\ o.component_id \notin DOMAIN registry.interfaces
    \/ o.kind \in OtherOpKinds

\* the entity ids added and not since removed, after the ops
RECURSIVE AddedAfter(_, _)
AddedAfter(ids, ops) ==
    IF ops = <<>> THEN ids
    ELSE AddedAfter(CASE Head(ops).kind = "AddEntity" -> ids \cup {Head(ops).entity_id}
                      [] Head(ops).kind = "RemoveEntity" -> ids \ {Head(ops).entity_id}
                      [] OTHER -> ids,
                    Tail(ops))

\* the <<entity id, request id>> of the command requests of the batch that name
\* a registered component type and an entity that has been added by then
Delivered(registry, world, ops) ==
    {<<ops[i].entity_id, ops[i].request_id>> : i \in
        {j \in 1..Len(ops) :
            /\ ops[j].kind = "CommandRequest"
            /\ ops[j].component_id \in DOMAIN registry.interfaces
            /\ ops[j].entity_id \in
                  DOMAIN process_loop(registry, world, ops, j - 1).spatial_to_specs_entity}}

\* the entity ids of the component updates of the batch that reach the
\* dispatcher of a registered type, with a payload that decodes, while the
\* entity has no cell of the type
UpdatesWithoutCell(registry, world, ops) ==
    {ops[j].entity_id : j \in
        {i \in 1..Len(ops) :
            LET sofar == process_loop(registry, world, ops, i - 1)
            IN  /\ ~sofar.panicked
                /\ ops[i].kind = "ComponentUpdate"
                /\ ops[i].component_id \in DOMAIN registry.interfaces
                /\ ops[i].entity_id \in DOMAIN sofar.spatial_to_specs_entity
                /\ ops[i].update # None
                /\ sofar.cells[sofar.spatial_to_specs_entity[ops[i].entity_id]] = None}}

\* the cases of the ops of the batch that name an entity id the identity map
\* does not hold when the loop reaches them: a remove-entity, an op on a
\* component or a command of a registered type, one of an unregistered type
UnmappedCases(registry, world, ops) ==
    {IF ops[j].kind = "RemoveEntity" THEN "RemoveEntity"
     ELSE IF ops[j].component_id \in DOMAIN registry.interfaces THEN "registered"
     ELSE "unregistered" : j \in
        {i \in 1..Len(ops) :
            LET sofar == process_loop(registry, world, ops, i - 1)
            IN  /\ ~sofar.panicked
                /\ ops[i].kind \in {"RemoveEntity", "AddComponent", "RemoveComponent",
                                     "ComponentUpdate", "AuthorityChange",
                                     "CommandRequest"}
                /\ ops[i].entity_id \notin DOMAIN sofar.spatial_to_specs_entity}}

\* the entities that held a cell when the loop reached a remove-entity op or
\* a remove-component op of a registered type for them, and for which no
\* add-component op has been processed since: entities is this set before
\* the batch
RECURSIVE RemovedAfter(_, _, _, _)
RemovedAfter(registry, world, handles, ops) ==
    IF ops = <<>> \/ world.panicked THEN handles
    ELSE LET o       == Head(ops)
             after   == process_op(registry, world, o)
             reached == /\ ~after.panicked
                        /\ \/ o.kind = "RemoveEntity"
                           \/ /\ o.kind \in {"RemoveComponent", "AddComponent"}
                              /\ o.component_id \in DOMAIN registry.interfaces
             entity  == world.spatial_to_specs_entity[o.entity_id]
         IN  RemovedAfter(registry, after,
                 IF ~reached THEN handles
                 ELSE IF o.kind = "AddComponent" THEN handles \ {entity}
                 ELSE IF world.cells[entity] # None THEN handles \cup {entity}
                 ELSE handles,
                 Tail(ops))

\* the entities whose cell held a change not yet flushed, its flag set or an
\* update pending, when the loop reached an add-component op of a registered
\* type for them
Replaced(registry, world, ops) ==
    {process_loop(registry, world, ops, j - 1).spatial_to_specs_entity[ops[j].entity_id] :
        j \in {i \in 1..Len(ops) :
            LET sofar == process_loop(registry, world, ops, i - 1)
            IN  /\ ~sofar.panicked
                /\ ops[i].kind = "AddComponent"
                /\ ops[i].component_id \in DOMAIN registry.interfaces
                /\ ops[i].entity_id \in DOMAIN sofar.spatial_to_specs_entity
                /\ ops[i].data # None
                /\ LET old == sofar.cells[sofar.spatial_to_specs_entity[ops[i].entity_id]]
                   IN  /\ old # None
                       /\ old[1].value_is_dirty \/ old[1].current_update # None}}

(***************************************************************************)
(* State.                                                                  *)
(*   component  T::ID of the component type T of the cell                  *)
(*   cell       the SpatialComponent<T> of one entity                      *)
(*   panicked   a call has panicked (the run ends there)                   *)
(*   op, arg    the last call on the cell and its update argument          *)
(*   sent       what the last call handed to send_component_update         *)
(*   since      the updates of the successful send_update calls since the  *)
(*              cell was created or last flushed                           *)
(*   run, base  the number of send_update calls made back to back up to    *)
(*              now, and the cached value before the first of them         *)
(*   mutated    deref_mut succeeded since the cell was created or flushed  *)
(*   before     after a replicate call, the cell, since, run and mutated   *)
(*              as they were when it was called; None after other calls    *)
(*   after_flush  after a deref_mut or send_update call made right after a *)
(*              replicate call, the path the cell was changed by before    *)
(*              that replicate; None after other calls                     *)
(*                                                                         *)
(*   ledgers    the storage of CommandRequestsComp: per entity, None or    *)
(*              Some(ledger)                                               *)
(*   next_request_id   the id of the next inbound command request          *)
(*   ledger_op  the last call on the ledgers                               *)
(*   shown      the request ids the responder of the last respond call was *)
(*              called on, in order, each with whether a responder had     *)
(*              returned a response for it before the call, and with what  *)
(*              the responder returned for it in this call                 *)
(*   answered   the request ids a responder has returned a response for    *)
(*   responses_sent  what the last flush handed to send_command_response   *)
(*   response_log    every <<request_id, response>> handed to              *)
(*              send_command_response so far, in order                     *)
(*                                                                         *)
(*   sender     the CommandSenderRes                                       *)
(*   next_outgoing_id  the id the transport returns from the next          *)
(*              send_command_request                                       *)
(*   commands   the number of send_command calls so far                    *)
(*   sender_op, response_op  the last call on the correlator, and the      *)
(*              response event of a got_command_response call              *)
(*   requests_sent  what the last flush handed to send_command_request     *)
(*   request_log    the ids the transport returned for the requests handed *)
(*              to send_command_request so far, in order                   *)
(*   assigned   per callback, the request id it was stored under           *)
(*   invocations  per callback, the values it was invoked with, in order   *)
(*   responded  the request ids a response event has arrived for after     *)
(*              the id was assigned                                        *)
(*   found      the correlator the callback found when it ran in the last  *)
(*              got_command_response call and sent a command of its own;   *)
(*              None after other calls                                     *)
(*                                                                         *)
(*   cells      the storage of SpatialComponent<T>: per entity, None or    *)
(*              Some(cell)                                                 *)
(*   authoritative  the AuthorityBitSet<T>                                 *)
(*   dispatcher_op  the last call on the dispatcher of T                   *)
(*   updates_sent   the <<entity_id, update>> the last replicate of the    *)
(*              dispatcher handed to send_component_update                 *)
(*                                                                         *)
(*   component_registry  the ComponentRegistry                             *)
(*   registrations  the number of register_component calls so far          *)
(*   registering    the type of the last register_component call           *)
(*   visited, visited_before  the component ids of the dispatchers the     *)
(*              last run of the writer called replicate on, in order, and  *)
(*              those of the run before it                                 *)
(*   wire       what the last run of the writer handed to the connection,  *)
(*              in order, each as <<component id, kind>>                   *)
(*                                                                         *)
(*   spatial_to_specs_entity  the reader's map from entity ids to entities *)
(*   entities   the EntitiesRes                                            *)
(*   entity_id_storage  the storage of WrappedEntityId                     *)
(*   reader_op  the last call on the reader                                *)
(*   stepwise   the world the ops of the last batch give one by one        *)
(*   skipped    the world the last batch gives without the ops whose       *)
(*              payload does not decode                                    *)
(*   without_ignored  the world the last batch gives without the ops that  *)
(*              name an unregistered type or are of another kind           *)
(*   order_mattered  the last batch gives another world in reverse order   *)
(*   ignored    the last batch held an op that names an unregistered type  *)
(*              and an op of another kind                                  *)
(*   added      the entity ids added and not since removed                 *)
(*   delivered  the <<entity id, request id>> of the command requests of   *)
(*              the last batch for a registered type and an added entity   *)
(*   routed     the request ids of the command responses of the last batch *)
(*              for a registered type that a callback was stored under     *)
(*   update_missed  the entity ids of the component updates of the last    *)
(*              batch that reached the dispatcher of a registered type     *)
(*              while the entity had no cell of the type                   *)
(*   unmapped   the cases of the ops of the last batch that named an       *)
(*              entity id the identity map did not hold                    *)
(*   removed    the entities that held a cell when a remove-entity or a    *)
(*              remove-component op was processed for them, without an     *)
(*              add-component op since (kept where cells are changed by    *)
(*              systems and flushed by the writer)                         *)
(*   replaced   the entities whose cell held a change not yet flushed when *)
(*              an add-component op of the last batch was processed for    *)
(*              them (kept likewise)                                       *)
(***************************************************************************)
VARIABLES component, cell, panicked, op, arg, sent, since, run, base, mutated, before,
          after_flush,
          ledgers, next_request_id, ledger_op, shown, answered, responses_sent,
          response_log,
          sender, next_outgoing_id, commands, sender_op, response_op, requests_sent,
          request_log, assigned, invocations, responded, found,
          cells, authoritative, dispatcher_op, updates_sent,
          component_registry, registrations, registering, visited, visited_before,
          wire,
          spatial_to_specs_entity, entities, entity_id_storage, reader_op, stepwise,
          skipped, without_ignored, order_mattered, ignored, added, delivered, routed,
          update_missed, unmapped, removed, replaced

cellVars == <<component, cell, panicked, op, arg, sent, since, run, base, mutated, before,
             after_flush>>

\* the path the cell was changed by before the replicate just called
FlushedPath ==
    IF op # "replicate" THEN None
    ELSE IF before[1].mutated THEN Some("deref_mut")
    ELSE IF before[1].since # <<>> THEN Some("send_update")
    ELSE Some("none")

ledgerVars == <<ledgers, next_request_id, ledger_op, shown, answered, responses_sent,
                response_log>>

senderVars == <<sender, next_outgoing_id, commands, sender_op, response_op,
                requests_sent, request_log, assigned, invocations, responded, found>>

dispatcherVars == <<cells, authoritative, dispatcher_op, updates_sent>>

registryVars == <<component_registry, registrations, registering, visited,
                  visited_before>>

readerVars == <<spatial_to_specs_entity, entities, entity_id_storage, reader_op,
                stepwise, skipped, without_ignored, order_mattered, ignored, added,
                delivered, routed, update_missed, unmapped, removed, replaced>>

worldVars == <<registryVars, wire, readerVars>>

vars == <<cellVars, ledgerVars, senderVars, dispatcherVars, worldVars>>

CellInit(T) ==
    /\ component = T
    /\ cell \in {new(v) : v \in Data(T)}
    /\ panicked = FALSE
    /\ op = "new"
    /\ arg = None
    /\ sent = <<>>
    /\ since = <<>>
    /\ run = 0
    /\ base = cell.value
    /\ mutated = FALSE
    /\ before = None
    /\ after_flush = None

\* add_component: a fresh cell replaces the entity's cell
New ==
    /\ ~panicked
    /\ UNCHANGED <<component, ledgerVars, senderVars, dispatcherVars>>
    /\ \E v \in Data(component) :
        /\ cell' = new(v)
        /\ base' = v
    /\ op' = "new"
    /\ arg' = None
    /\ sent' = <<>>
    /\ since' = <<>>
    /\ run' = 0
    /\ mutated' = FALSE
    /\ before' = None
    /\ after_flush' = None
    /\ UNCHANGED panicked
    /\ UNCHANGED worldVars

DerefMut ==
    /\ ~panicked
    /\ UNCHANGED <<component, ledgerVars, senderVars, dispatcherVars>>
    /\ before' = None
    /\ after_flush' = FlushedPath
    /\ op' = "deref_mut"
    /\ arg' = None
    /\ sent' = <<>>
    /\ IF deref_mut_panics(cell)
       THEN /\ panicked' = TRUE
            /\ UNCHANGED <<cell, run, base, mutated>>
       ELSE /\ \E w \in Data(component) : cell' = deref_mut(cell, w)
            /\ run' = 0
            /\ base' = cell'.value
            /\ mutated' = TRUE
            /\ UNCHANGED panicked
    /\ UNCHANGED since
    /\ UNCHANGED worldVars

\* send_update with the check after the merge
SendUpdateMergingBeforeCheck ==
    /\ ~panicked
    /\ UNCHANGED <<component, ledgerVars, senderVars, dispatcherVars>>
    /\ before' = None
    /\ after_flush' = FlushedPath
    /\ Len(since) < MaxUpdates
    /\ \E u \in Update(component) :
        /\ arg' = Some(u)
        /\ cell' = send_update(component, cell, u)
        /\ IF send_update_panics(cell)
           THEN /\ panicked' = TRUE
                /\ UNCHANGED <<since, run, base>>
           ELSE /\ since' = Append(since, u)
                /\ run' = run + 1
                /\ UNCHANGED <<panicked, base>>
    /\ op' = "send_update"
    /\ sent' = <<>>
    /\ UNCHANGED mutated
    /\ UNCHANGED worldVars

SendUpdate ==
    /\ ~panicked
    /\ UNCHANGED <<component, ledgerVars, senderVars, dispatcherVars>>
    /\ before' = None
    /\ after_flush' = FlushedPath
    /\ Len(since) < MaxUpdates
    /\ \E u \in Update(component) :
        /\ arg' = Some(u)
        /\ IF send_update_panics(cell)
           THEN /\ panicked' = TRUE
                /\ UNCHANGED <<cell, since, run, base>>
           ELSE /\ cell' = send_update(component, cell, u)
                /\ since' = Append(since, u)
                /\ run' = run + 1
                /\ UNCHANGED <<panicked, base>>
    /\ op' = "send_update"
    /\ sent' = <<>>
    /\ UNCHANGED mutated
    /\ UNCHANGED worldVars

\* ComponentDispatcher::apply_component_update on the entity's cell
ApplyRemoteUpdate ==
    /\ ~panicked
    /\ UNCHANGED <<component, ledgerVars, senderVars, dispatcherVars>>
    /\ before' = None
    /\ after_flush' = None
    /\ \E u \in Update(component) :
        /\ arg' = Some(u)
        /\ cell' = apply_update_to_value(component, cell, u)
    /\ base' = cell'.value
    /\ run' = 0
    /\ op' = "apply_remote_update"
    /\ sent' = <<>>
    /\ UNCHANGED <<panicked, since, mutated>>
    /\ UNCHANGED worldVars

Replicate ==
    /\ ~panicked
    /\ UNCHANGED <<component, ledgerVars, senderVars, dispatcherVars>>
    /\ before' = Some([cell |-> cell, since |-> since, run |-> run, mutated |-> mutated])
    /\ after_flush' = None
    /\ cell' = replicate(component, cell).cell
    /\ sent' = replicate(component, cell).transmitted
    /\ op' = "replicate"
    /\ arg' = None
    /\ since' = <<>>
    /\ run' = 0
    /\ base' = cell'.value
    /\ mutated' = FALSE
    /\ UNCHANGED panicked
    /\ UNCHANGED worldVars

CellNext ==
    \/ New
    \/ DerefMut
    \/ SendUpdate
    \/ ApplyRemoteUpdate
    \/ Replicate

(***************************************************************************)
(* The command request ledgers of the entities.                            *)
(***************************************************************************)
\* the entities that receive command requests
LedgerEntities == {1, 2}

LedgerInit ==
    /\ ledgers = [e \in LedgerEntities |-> None]
    /\ next_request_id = 1
    /\ ledger_op = "default"
    /\ shown = <<>>
    /\ answered = {}
    /\ responses_sent = <<>>
    /\ response_log = <<>>

\* ComponentDispatcher::on_command_request: the request goes to the entity's
\* ledger, which is created when the entity has none
OnCommandRequest ==
    /\ next_request_id <= MaxRequests
    /\ \E e \in LedgerEntities, request \in CommandRequest, caller \in Callers :
        LET requests == IF ledgers[e] # None THEN ledgers[e][1]
                                             ELSE CommandRequestsComp_default
        IN  ledgers' = [ledgers EXCEPT ![e] =
                Some(on_request(requests, next_request_id, request,
                                caller[1], caller[2]))]
    /\ next_request_id' = next_request_id + 1
    /\ ledger_op' = "on_request"
    /\ shown' = <<>>
    /\ responses_sent' = <<>>
    /\ UNCHANGED <<answered, response_log>>
    /\ UNCHANGED <<cellVars, senderVars, dispatcherVars>>
    /\ UNCHANGED worldVars

\* a system calls respond on the ledger of an entity; its responder returns
\* answers[i] for the i-th request it is called on
Respond ==
    /\ \E e \in LedgerEntities :
        /\ ledgers[e] # None
        /\ \E answers \in [1..Len(ledgers[e][1].requests) -> OptionOf(CommandResponse)] :
            /\ ledgers' = [ledgers EXCEPT ![e] = Some(respond(ledgers[e][1], answers))]
            /\ shown' = [i \in 1..Len(ledgers[e][1].requests) |->
                            <<ledgers[e][1].requests[i][1],
                              ledgers[e][1].requests[i][1] \in answered,
                              answers[i]>>]
            /\ answered' = answered \cup
                  {ledgers[e][1].requests[i][1] :
                      i \in {j \in 1..Len(ledgers[e][1].requests) : answers[j] # None}}
    /\ ledger_op' = "respond"
    /\ responses_sent' = <<>>
    /\ UNCHANGED <<next_request_id, response_log>>
    /\ UNCHANGED <<cellVars, senderVars, dispatcherVars>>
    /\ UNCHANGED worldVars

FlushResponsesPartUnderAuthority ==
    LET held    == {e \in LedgerEntities : ledgers[e] # None /\ e \in authoritative}
        order   == JoinOrder(held)
        flushed == [e \in LedgerEntities |->
                      IF e \in held THEN Some(flush_responses(ledgers[e][1]).comp)
                                    ELSE ledgers[e]]
        out     == Concat([i \in 1..Len(order) |->
                             flush_responses(ledgers[order[i]][1]).transmitted])
    IN  /\ ledgers' = clear_empty_request_objects(flushed)
        /\ responses_sent' = out
        /\ response_log' = response_log \o out
        /\ ledger_op' = "flush_responses"
        /\ shown' = <<>>
        /\ UNCHANGED <<next_request_id, answered>>

FlushResponsesPartPruningFirst ==
    LET pruned  == clear_empty_request_objects(ledgers)
        held    == {e \in LedgerEntities : pruned[e] # None}
        order   == JoinOrder(held)
        out     == Concat([i \in 1..Len(order) |->
                             flush_responses(pruned[order[i]][1]).transmitted])
    IN  /\ ledgers' = [e \in LedgerEntities |->
                          IF e \in held THEN Some(flush_responses(pruned[e][1]).comp)
                                        ELSE None]
        /\ responses_sent' = out
        /\ response_log' = response_log \o out
        /\ ledger_op' = "flush_responses"
        /\ shown' = <<>>
        /\ UNCHANGED <<next_request_id, answered>>

\* the last part of ComponentDispatcher::replicate: flush_responses on every
\* ledger, then clear_empty_request_objects
FlushResponsesPart ==
    LET held    == {e \in LedgerEntities : ledgers[e] # None}
        order   == JoinOrder(held)
        flushed == [e \in LedgerEntities |->
                      IF e \in held THEN Some(flush_responses(ledgers[e][1]).comp)
                                    ELSE None]
        out     == Concat([i \in 1..Len(order) |->
                             flush_responses(ledgers[order[i]][1]).transmitted])
    IN  /\ ledgers' = clear_empty_request_objects(flushed)
        /\ responses_sent' = out
        /\ response_log' = response_log \o out
        /\ ledger_op' = "flush_responses"
        /\ shown' = <<>>
        /\ UNCHANGED <<next_request_id, answered>>

\* ComponentDispatcher::replicate, its last part
FlushResponses ==
    /\ FlushResponsesPart
    /\ UNCHANGED <<cellVars, senderVars, dispatcherVars>>
    /\ UNCHANGED worldVars

LedgerNext ==
    \/ OnCommandRequest
    \/ Respond
    \/ FlushResponses

(***************************************************************************)
(* The command response correlator.                                        *)
(***************************************************************************)
SenderInit ==
    /\ sender = CommandSenderRes_default
    /\ next_outgoing_id = 1
    /\ commands = 0
    /\ sender_op = "default"
    /\ response_op = None
    /\ requests_sent = <<>>
    /\ request_log = <<>>
    /\ assigned = <<>>
    /\ invocations = <<>>
    /\ responded = {}
    /\ found = None

\* a system calls send_command; its callback is the callback numbered commands + 1
SendCommand ==
    /\ commands < MaxCommands
    /\ \E entity_id \in TargetEntityIds, request \in CommandRequest :
        sender' = send_command(sender, entity_id, request, commands + 1)
    /\ commands' = commands + 1
    /\ invocations' = Append(invocations, <<>>)
    /\ sender_op' = "send_command"
    /\ response_op' = None
    /\ requests_sent' = <<>>
    /\ found' = None
    /\ UNCHANGED <<next_outgoing_id, request_log, assigned, responded>>
    /\ UNCHANGED <<cellVars, ledgerVars, dispatcherVars>>
    /\ UNCHANGED worldVars

\* the ids the transport returns from n calls of send_command_request: it
\* numbers the requests it is handed
FreshIds(first_id, n) == [i \in 1..n |-> first_id + i - 1]

\* the middle part of ComponentDispatcher::replicate: flush_requests, where
\* the transport returns ids
FlushRequestsPart(ids) ==
    LET n == Len(sender.buffered_requests) IN
    /\ sender' = flush_requests(sender, ids).sender
    /\ requests_sent' = flush_requests(sender, ids).transmitted
    /\ request_log' = request_log \o
          [i \in 1..n |-> flush_requests(sender, ids).transmitted[i][1]]
    /\ next_outgoing_id' = next_outgoing_id + n
    /\ assigned' = [cb \in DOMAIN assigned \cup
                              {sender.buffered_requests[i][3] : i \in 1..n} |->
                       IF cb \in DOMAIN assigned THEN assigned[cb]
                       ELSE ids[CHOOSE i \in 1..n : sender.buffered_requests[i][3] = cb]]
    /\ sender_op' = "flush_requests"
    /\ response_op' = None
    /\ found' = None
    /\ UNCHANGED <<commands, invocations, responded>>

\* ComponentDispatcher::replicate, its middle part
FlushRequests ==
    /\ FlushRequestsPart(FreshIds(next_outgoing_id, Len(sender.buffered_requests)))
    /\ UNCHANGED <<cellVars, ledgerVars, dispatcherVars>>
    /\ UNCHANGED worldVars

\* the ids of a transport that may return an id it has returned before
RepeatingIds == {1, 2}

\* flush_requests over a transport that may return any of these ids
FlushRequestsAnyIds ==
    /\ \E ids \in [1..Len(sender.buffered_requests) -> RepeatingIds] :
          FlushRequestsPart(ids)
    /\ UNCHANGED <<cellVars, ledgerVars, dispatcherVars>>
    /\ UNCHANGED worldVars

\* ComponentDispatcher::on_command_response: a response event arrives, for a
\* request id the transport has returned or for one it has not
GotCommandResponse ==
    /\ \E request_id \in 1..(MaxCommands + 1), response \in StatusCode :
        LET event == [request_id |-> request_id, response |-> response]
            result == got_command_response(sender, event)
        IN  /\ response_op' = Some(event)
            /\ sender' = result.sender
            /\ invocations' =
                  [cb \in DOMAIN invocations |->
                      invocations[cb] \o
                      SelectSeq([i \in 1..Len(result.invoked) |->
                                    IF result.invoked[i].callback = cb
                                    THEN result.invoked[i].value ELSE None],
                                LAMBDA v : v # None)]
            /\ responded' = IF request_id < next_outgoing_id
                            THEN responded \cup {request_id} ELSE responded
    /\ sender_op' = "got_command_response"
    /\ requests_sent' = <<>>
    /\ found' = None
    /\ UNCHANGED <<next_outgoing_id, commands, request_log, assigned>>
    /\ UNCHANGED <<cellVars, ledgerVars, dispatcherVars>>
    /\ UNCHANGED worldVars

\* a response event arrives and the callback it is for, when it runs, sends a
\* command of its own, with the callback numbered commands + 1
GotCommandResponseSending ==
    /\ commands < MaxCommands
    /\ \E request_id \in 1..(MaxCommands + 1), response \in StatusCode,
          entity_id \in TargetEntityIds, request \in CommandRequest :
        LET event == [request_id |-> request_id, response |-> response]
            result == got_command_response_sending(
                          sender, event, <<entity_id, request, commands + 1>>)
            ran == result.invoked # <<>>
            invoked_so_far ==
                [cb \in DOMAIN invocations |->
                    invocations[cb] \o
                    SelectSeq([i \in 1..Len(result.invoked) |->
                                  IF result.invoked[i].callback = cb
                                  THEN result.invoked[i].value ELSE None],
                              LAMBDA v : v # None)]
        IN  /\ response_op' = Some(event)
            /\ sender' = result.sender
            /\ found' = result.found
            /\ invocations' = IF ran THEN Append(invoked_so_far, <<>>)
                                      ELSE invoked_so_far
            /\ commands' = IF ran THEN commands + 1 ELSE commands
            /\ responded' = IF request_id < next_outgoing_id
                            THEN responded \cup {request_id} ELSE responded
    /\ sender_op' = "got_command_response"
    /\ requests_sent' = <<>>
    /\ UNCHANGED <<next_outgoing_id, request_log, assigned>>
    /\ UNCHANGED <<cellVars, ledgerVars, dispatcherVars>>
    /\ UNCHANGED worldVars

SenderNext ==
    \/ SendCommand
    \/ FlushRequests
    \/ GotCommandResponse

SenderAnyIdsNext ==
    \/ SendCommand
    \/ FlushRequestsAnyIds
    \/ GotCommandResponse

SenderChainedNext ==
    \/ SendCommand
    \/ FlushRequests
    \/ GotCommandResponseSending

(***************************************************************************)
(* The dispatcher of one component type: the cells of the entities, the    *)
(* authority markers and, in replicate, the command traffic of the type.   *)
(***************************************************************************)
DispatcherInit ==
    /\ cells = [e \in DispatcherEntities |-> None]
    /\ authoritative = AuthorityBitSet_new
    /\ dispatcher_op = "setup_component"
    /\ updates_sent = <<>>

AddComponent ==
    /\ ~panicked
    /\ \E e \in DispatcherEntities, data \in Data(component) :
        cells' = add_component(cells, e, data)
    /\ dispatcher_op' = "add_component"
    /\ updates_sent' = <<>>
    /\ UNCHANGED authoritative
    /\ UNCHANGED <<cellVars, ledgerVars, senderVars>>
    /\ UNCHANGED worldVars

RemoveComponent ==
    /\ ~panicked
    /\ \E e \in DispatcherEntities :
        /\ cells[e] # None
        /\ cells' = remove_component(cells, e)
    /\ dispatcher_op' = "remove_component"
    /\ updates_sent' = <<>>
    /\ UNCHANGED authoritative
    /\ UNCHANGED <<cellVars, ledgerVars, senderVars>>
    /\ UNCHANGED worldVars

ApplyAuthorityChange ==
    /\ ~panicked
    /\ \E e \in DispatcherEntities, a \in Authority :
        authoritative' = apply_authority_change(authoritative, e, [authority |-> a])
    /\ dispatcher_op' = "apply_authority_change"
    /\ updates_sent' = <<>>
    /\ UNCHANGED cells
    /\ UNCHANGED <<cellVars, ledgerVars, senderVars>>
    /\ UNCHANGED worldVars

\* a system writes the value of a cell it gets from the write storage
Mutate ==
    /\ ~panicked
    /\ \E e \in join_write_storage(cells, authoritative) :
        IF deref_mut_panics(cells[e][1])
        THEN /\ panicked' = TRUE
             /\ UNCHANGED cells
        ELSE /\ \E w \in Data(component) :
                  cells' = [cells EXCEPT ![e] = Some(deref_mut(cells[e][1], w))]
             /\ UNCHANGED panicked
    /\ dispatcher_op' = "deref_mut"
    /\ updates_sent' = <<>>
    /\ UNCHANGED authoritative
    /\ UNCHANGED <<component, cell, op, arg, sent, since, run, base, mutated, before,
                 after_flush>>
    /\ UNCHANGED <<ledgerVars, senderVars>>
    /\ UNCHANGED worldVars

\* a system calls send_update on a cell it gets from the write storage
SendComponentUpdate ==
    /\ ~panicked
    /\ \E e \in join_write_storage(cells, authoritative) :
        IF send_update_panics(cells[e][1])
        THEN /\ panicked' = TRUE
             /\ UNCHANGED cells
        ELSE /\ \E u \in Update(component) :
                  cells' = [cells EXCEPT
                                 ![e] = Some(send_update(component, cells[e][1], u))]
             /\ UNCHANGED panicked
    /\ dispatcher_op' = "send_update"
    /\ updates_sent' = <<>>
    /\ UNCHANGED authoritative
    /\ UNCHANGED <<component, cell, op, arg, sent, since, run, base, mutated, before,
                 after_flush>>
    /\ UNCHANGED <<ledgerVars, senderVars>>
    /\ UNCHANGED worldVars

\* ComponentDispatcher::replicate: the cells, then flush_requests, then
\* flush_responses and clear_empty_request_objects
DispatcherReplicate ==
    /\ ~panicked
    /\ cells' = replicate_cells(component, cells, authoritative).storage
    /\ updates_sent' = replicate_cells(component, cells, authoritative).transmitted
    /\ FlushRequestsPart(FreshIds(next_outgoing_id, Len(sender.buffered_requests)))
    /\ FlushResponsesPart
    /\ dispatcher_op' = "replicate"
    /\ UNCHANGED authoritative
    /\ UNCHANGED cellVars
    /\ UNCHANGED worldVars

DispatcherNext ==
    \/ AddComponent
    \/ RemoveComponent
    \/ ApplyAuthorityChange
    \/ Mutate
    \/ SendComponentUpdate
    \/ DispatcherReplicate

\* the command traffic of the type next to its authority markers
TrafficSendCommand ==
    /\ commands < MaxTrafficCommands
    /\ SendCommand

TrafficOnCommandRequest ==
    /\ next_request_id <= MaxTrafficRequests
    /\ OnCommandRequest

CommandTrafficNext ==
    \/ ApplyAuthorityChange
    \/ TrafficSendCommand
    \/ TrafficOnCommandRequest
    \/ Respond
    \/ DispatcherReplicate

(***************************************************************************)
(* The registry and the writer.                                            *)
(***************************************************************************)
RegistryInit(registries) ==
    /\ component_registry \in registries
    /\ registrations = 0
    /\ registering = None
    /\ visited = None
    /\ visited_before = None
    /\ wire = <<>>

\* a CommandSenderRes<T> is created: its Default registers T
Register ==
    /\ ~panicked
    /\ registrations < MaxRegistrations
    /\ \E T \in ComponentIds :
        /\ \E new_order \in Orders(DOMAIN component_registry.interfaces \cup {T}) :
              component_registry' = register_component(component_registry, T, new_order)
        /\ registering' = Some(T)
    /\ registrations' = registrations + 1
    /\ UNCHANGED <<visited, visited_before, wire>>
    /\ UNCHANGED <<cellVars, ledgerVars, senderVars, dispatcherVars, readerVars>>

\* what the replicate of the dispatcher of T has handed to the connection, in
\* order, each as <<T, kind>>: the updates of the cells, then the command
\* requests, then the command responses; the state held is that of the
\* dispatcher of component
Transmitted(T) ==
    IF T # component THEN <<>>
    ELSE [i \in 1..Len(updates_sent') |-> <<T, "update">>]
         \o [i \in 1..Len(requests_sent') |-> <<T, "request">>]
         \o [i \in 1..Len(responses_sent') |-> <<T, "response">>]

\* SpatialWriterSystem::run: replicate on every dispatcher interfaces_iter
\* yields, in that order
WriterRun ==
    /\ ~panicked
    /\ IF component \in DOMAIN component_registry.interfaces
       THEN /\ cells' = replicate_cells(component, cells, authoritative).storage
            /\ updates_sent' = replicate_cells(component, cells, authoritative).transmitted
            /\ FlushRequestsPart(FreshIds(next_outgoing_id, Len(sender.buffered_requests)))
            /\ FlushResponsesPart
       ELSE /\ updates_sent' = <<>>
            /\ UNCHANGED <<cells, ledgerVars, senderVars>>
    /\ visited' = Some([i \in 1..Len(interfaces_iter(component_registry)) |->
                           interfaces_iter(component_registry)[i].component])
    /\ visited_before' = visited
    /\ wire' = Concat([i \in 1..Len(interfaces_iter(component_registry)) |->
                          Transmitted(interfaces_iter(component_registry)[i].component)])
    /\ dispatcher_op' = "replicate"
    /\ UNCHANGED <<component_registry, registrations, registering, authoritative>>
    /\ UNCHANGED <<cellVars, readerVars>>

RegistryNext ==
    \/ Register
    \/ WriterRun

\* the traffic of one entity that the writer flushes: its cell, its authority
\* marker, the commands sent to it and the command requests it receives
WriterAddComponent ==
    /\ AddComponent
    /\ \A e \in DispatcherEntities \ OpEntityIds : cells'[e] = None

WriterAuthorityChange ==
    /\ ApplyAuthorityChange
    /\ authoritative' \subseteq OpEntityIds

WriterSendCommand ==
    /\ TrafficSendCommand
    /\ sender'.buffered_requests[Len(sender'.buffered_requests)][1] \in OpEntityIds
    /\ sender'.buffered_requests[Len(sender'.buffered_requests)][2]
          = [CreatePlayer |-> [name |-> "A"]]

WriterOnCommandRequest ==
    /\ TrafficOnCommandRequest
    /\ \A e \in LedgerEntities \ OpEntityIds : ledgers'[e] = None
    /\ \A e \in OpEntityIds :
          /\ ledgers'[e][1].requests[Len(ledgers'[e][1].requests)][2]
                = [CreatePlayer |-> [name |-> "A"]]
          /\ ledgers'[e][1].requests[Len(ledgers'[e][1].requests)][3] = "worker1"

WriterNext ==
    \/ WriterAddComponent
    \/ WriterAuthorityChange
    \/ Mutate
    \/ WriterSendCommand
    \/ WriterOnCommandRequest
    \/ Respond
    \/ WriterRun

(***************************************************************************)
(* The frame: one inbound phase, then the systems of the application, then *)
(* the flush of the writer.  The phases do not overlap: once a system has  *)
(* run, nothing arrives before the writer has run.                         *)
(***************************************************************************)
\* a system of the application has run since the last run of the writer
InLogic ==
    \/ ledger_op = "respond"
    \/ sender_op = "send_command"
    \/ dispatcher_op \in {"deref_mut", "send_update"}

\* the inbound phase hands a command request to the dispatcher
FrameOnCommandRequest ==
    /\ ~InLogic
    /\ next_request_id <= MaxFrameRequests
    /\ OnCommandRequest
    /\ \A e \in LedgerEntities \ OpEntityIds : ledgers'[e] = None
    /\ \A e \in OpEntityIds :
          /\ ledgers'[e][1].requests[Len(ledgers'[e][1].requests)][2]
                = [CreatePlayer |-> [name |-> "A"]]
          /\ ledgers'[e][1].requests[Len(ledgers'[e][1].requests)][3] = "worker1"

FrameCommandsNext ==
    \/ FrameOnCommandRequest
    \/ Respond
    \/ TrafficSendCommand
    \/ WriterRun

(***************************************************************************)
(* The reader.                                                             *)
(***************************************************************************)
ReaderInit ==
    /\ spatial_to_specs_entity = <<>>
    /\ entities = EntitiesRes_default
    /\ entity_id_storage = <<>>
    /\ reader_op = "new"
    /\ stepwise = None
    /\ skipped = None
    /\ without_ignored = None
    /\ order_mattered = FALSE
    /\ ignored = FALSE
    /\ added = {}
    /\ delivered = {}
    /\ routed = {}
    /\ update_missed = {}
    /\ unmapped = {}
    /\ removed = {}
    /\ replaced = {}

\* the world process works on
World ==
    [spatial_to_specs_entity |-> spatial_to_specs_entity,
     entities                |-> entities,
     entity_id_storage       |-> entity_id_storage,
     cells                   |-> cells,
     authoritative           |-> authoritative,
     panicked                |-> panicked]

\* SpatialReader::process on a batch of ops over alphabet that get_op_list
\* returns; the entities it creates are the entities of the world
Process(alphabet) ==
    /\ ~panicked
    /\ \E n \in 0..MaxBatch : \E ops \in [1..n -> alphabet] :
        /\ entities.created + Len(SelectSeq(ops, LAMBDA o : o.kind = "AddEntity"))
              <= Cardinality(DispatcherEntities)
        /\ LET after == process(component_registry, World, ops)
           IN  /\ spatial_to_specs_entity' = after.spatial_to_specs_entity
               /\ entities' = after.entities
               /\ entity_id_storage' = after.entity_id_storage
               /\ cells' = after.cells
               /\ authoritative' = after.authoritative
               /\ panicked' = after.panicked
        /\ stepwise' = Some(StepByStep(component_registry, World, ops))
        /\ skipped' = Some(SkippingUndecodable(component_registry, World, ops))
        /\ without_ignored' =
              Some(process(component_registry, World,
                           SelectSeq(ops, LAMBDA o : ~Ignored(component_registry, o))))
        /\ order_mattered' =
              (process(component_registry, World, Reverse(ops))
                  # process(component_registry, World, ops))
        /\ ignored' =
              ((\E i \in 1..n : ops[i].kind \in OtherOpKinds) /\
               (\E i \in 1..n : Ignored(component_registry, ops[i]) /\
                                 ops[i].kind \notin OtherOpKinds))
        /\ added' = AddedAfter(added, ops)
        /\ delivered' = Delivered(component_registry, World, ops)
        /\ routed' = {ops[i].request_id : i \in
                         {j \in 1..n : /\ ops[j].kind = "CommandResponse"
                                       /\ ops[j].component_id \in
                                             DOMAIN component_registry.interfaces
                                       /\ ops[j].request_id \in DOMAIN sender.callbacks}}
        /\ update_missed' = UpdatesWithoutCell(component_registry, World, ops)
        /\ unmapped' = UnmappedCases(component_registry, World, ops)
    /\ reader_op' = "process"
    /\ dispatcher_op' = "process"
    /\ updates_sent' = <<>>
    /\ UNCHANGED <<removed, replaced>>
    /\ UNCHANGED <<component, cell, op, arg, sent, since, run, base, mutated, before,
                 after_flush>>
    /\ UNCHANGED <<ledgerVars, senderVars, registryVars, wire>>

\* batches of ops on entities and components
ProcessWorldOps == Process(WorldOps(component))

\* batches of ops on commands
ProcessCommandOps == Process(CommandOps(component))

ReaderNext == ProcessWorldOps

\* SpatialReader::process on a batch of ops that create and destroy cells,
\* between the systems that change the cells and the runs of the writer
ProcessLifecycleOps ==
    /\ ~panicked
    /\ \E n \in 0..MaxBatch : \E ops \in [1..n -> LifecycleOps(component)] :
        /\ entities.created + Len(SelectSeq(ops, LAMBDA o : o.kind = "AddEntity"))
              <= Cardinality(DispatcherEntities)
        /\ LET after == process(component_registry, World, ops)
           IN  /\ spatial_to_specs_entity' = after.spatial_to_specs_entity
               /\ entities' = after.entities
               /\ entity_id_storage' = after.entity_id_storage
               /\ cells' = after.cells
               /\ authoritative' = after.authoritative
               /\ panicked' = after.panicked
        /\ removed' = RemovedAfter(component_registry, World, removed, ops)
        /\ replaced' = Replaced(component_registry, World, ops)
    /\ reader_op' = "process"
    /\ dispatcher_op' = "process"
    /\ updates_sent' = <<>>
    /\ UNCHANGED <<stepwise, skipped, without_ignored, order_mattered, ignored, added,
                   delivered, routed, update_missed, unmapped>>
    /\ UNCHANGED <<component, cell, op, arg, sent, since, run, base, mutated, before,
                 after_flush>>
    /\ UNCHANGED <<ledgerVars, senderVars, registryVars, wire>>

\* a system writes the value of a cell, or sends an update of it
LifecycleMutate ==
    /\ Mutate
    /\ \A e \in DispatcherEntities :
          cells'[e] # cells[e] => cells'[e][1].value = [name |-> "B", current_direction |-> 1]

LifecycleSendUpdate ==
    /\ SendComponentUpdate
    /\ \A e \in DispatcherEntities :
          cells'[e] # cells[e] =>
              cells'[e][1].current_update = Some(OpUpdate(component))

LifecycleNext ==
    \/ ProcessLifecycleOps
    \/ LifecycleMutate
    \/ LifecycleSendUpdate
    \/ WriterRun

ReaderCommandsNext ==
    \/ ProcessCommandOps
    \/ TrafficSendCommand
    \/ FlushRequests

(***************************************************************************)
(* The specifications.  Each runs one part of the core; the other parts    *)
(* stay as they are constructed.                                           *)
(***************************************************************************)
CellIdle ==
    /\ CellInit(Player_ID)
    /\ cell = new([name |-> "A", current_direction |-> 0])

\* a cell of the component Player
Init == CellInit(Player_ID) /\ LedgerInit /\ SenderInit /\ DispatcherInit
    /\ RegistryInit({ComponentRegistry_default}) /\ ReaderInit

Next == CellNext

Spec == Init /\ [][Next]_vars

\* a cell of the component EntityAcl
InitEntityAcl == CellInit(EntityAcl_ID) /\ LedgerInit /\ SenderInit /\ DispatcherInit
    /\ RegistryInit({ComponentRegistry_default}) /\ ReaderInit

SpecEntityAcl == InitEntityAcl /\ [][Next]_vars

\* the command request ledgers
InitLedger == CellIdle /\ LedgerInit /\ SenderInit /\ DispatcherInit
    /\ RegistryInit({ComponentRegistry_default}) /\ ReaderInit

SpecLedger == InitLedger /\ [][LedgerNext]_vars

\* the command response correlator
InitSender == CellIdle /\ LedgerInit /\ SenderInit /\ DispatcherInit
    /\ RegistryInit({ComponentRegistry_default}) /\ ReaderInit

SpecSender == InitSender /\ [][SenderNext]_vars

\* the command response correlator over a transport that may repeat an id
SpecSenderAnyIds == InitSender /\ [][SenderAnyIdsNext]_vars

\* the command response correlator with callbacks that send commands
SpecSenderChained == InitSender /\ [][SenderChainedNext]_vars

\* the dispatcher of Player: cells and authority markers
InitDispatcher == CellIdle /\ LedgerInit /\ SenderInit /\ DispatcherInit
    /\ RegistryInit({ComponentRegistry_default}) /\ ReaderInit

SpecDispatcher == InitDispatcher /\ [][DispatcherNext]_vars

\* the dispatcher of PlayerCreator: command traffic and authority markers
SpecCommandTraffic == InitDispatcher /\ [][CommandTrafficNext]_vars

\* the registry and the writer over it
InitRegistry ==
    /\ CellIdle /\ LedgerInit /\ SenderInit /\ DispatcherInit
    /\ RegistryInit({ComponentRegistry_default}) /\ ReaderInit

SpecRegistry == InitRegistry /\ [][RegistryNext]_vars

\* the reader over the entities and the cells of Player, after setup
InitReader ==
    /\ CellIdle /\ LedgerInit /\ SenderInit /\ DispatcherInit
    /\ RegistryInit(RegistryAfterSetup) /\ ReaderInit

SpecReader == InitReader /\ [][ReaderNext]_vars

\* the reader, the systems and the writer over the cells of Player, after setup
SpecLifecycle == InitReader /\ [][LifecycleNext]_vars

\* the reader over the command traffic of PlayerCreator, after setup
InitReaderCommands ==
    /\ CellInit(PlayerCreator_ID) /\ LedgerInit /\ SenderInit /\ DispatcherInit
    /\ RegistryInit(RegistryAfterSetup) /\ ReaderInit

SpecReaderCommands == InitReaderCommands /\ [][ReaderCommandsNext]_vars

\* the frames of the command traffic of PlayerCreator, after setup
SpecFrameCommands == InitReaderCommands /\ [][FrameCommandsNext]_vars

\* the writer over the dispatcher of PlayerCreator, after setup
InitWriter ==
    /\ CellInit(PlayerCreator_ID) /\ LedgerInit /\ SenderInit /\ DispatcherInit
    /\ RegistryInit(RegistryAfterSetup) /\ ReaderInit

SpecWriter == InitWriter /\ [][WriterNext]_vars

(***************************************************************************)
(* What the properties are stated with: the merge of a sequence of updates *)
(* said field by field, without the code's merge functions.                *)
(***************************************************************************)
\* the positions of seq whose update sets field f
SetBy(seq, f) == {i \in 1..Len(seq) : seq[i][f] # None}

\* what the last update of seq that sets field f sets it to; None when none does
LastWrite(seq, f) ==
    IF SetBy(seq, f) = {} THEN None ELSE seq[Max(SetBy(seq, f))][f]

MergedInOrder(seq) == [f \in Fields(component) |-> LastWrite(seq, f)]

\* the update that carries every field of a value
WholeValue(v) == [f \in Fields(component) |-> Some(v[f])]

\* the last n elements of seq
Last(seq, n) == SubSeq(seq, Len(seq) - n + 1, Len(seq))

(***************************************************************************)
(* C1: in every reachable state of a cell, the fully-dirty flag and a      *)
(* pending partial update are never both active.                           *)
(***************************************************************************)
C1_NeverDirtyAndPending ==
    ~(cell.value_is_dirty /\ cell.current_update # None)

\* a pending update accumulated from two send_update calls, on a cell that was
\* flushed after a mutation before
C1_Witness ==
    /\ op = "send_update"
    /\ ~panicked
    /\ Len(since) >= 2
    /\ cell.current_update # None
    /\ ~cell.value_is_dirty

(***************************************************************************)
(* Where the command requests delivered so far are.                        *)
(***************************************************************************)
\* how many entries of seq carry the request id
Occurrences(seq, id) == Cardinality({i \in 1..Len(seq) : seq[i][1] = id})

\* the pending requests, and the queued responses, of all the ledgers
AllRequests ==
    Concat([i \in 1..Len(JoinOrder(LedgerEntities)) |->
              IF ledgers[JoinOrder(LedgerEntities)[i]] = None THEN <<>>
              ELSE ledgers[JoinOrder(LedgerEntities)[i]][1].requests])

AllResponses ==
    Concat([i \in 1..Len(JoinOrder(LedgerEntities)) |->
              IF ledgers[JoinOrder(LedgerEntities)[i]] = None THEN <<>>
              ELSE ledgers[JoinOrder(LedgerEntities)[i]][1].responses])

C2_InOnePlace ==
    \A id \in 1..(next_request_id - 1) :
        /\ Occurrences(AllRequests, id) + Occurrences(AllResponses, id)
              + Occurrences(response_log, id) = 1
        /\ Occurrences(AllResponses, id) + Occurrences(response_log, id) > 0
              => id \in answered
        /\ id \in answered => Occurrences(AllRequests, id) = 0

(***************************************************************************)
(* C2: every inbound command request is answered exactly once.  At every   *)
(* moment each request delivered is in exactly one of: the pending         *)
(* requests, the response queue, the responses transmitted; a response is  *)
(* queued or transmitted for it only after a responder returned one, and   *)
(* transmitted at most once; and a request that has been answered is not   *)
(* shown to the responder of a later respond call.                         *)
(***************************************************************************)
C2_AnsweredExactlyOnce ==
    /\ C2_InOnePlace
    /\ \A i \in 1..Len(shown) : ~shown[i][2]

\* a respond call whose responder was shown two requests, answered one and
\* declined the other, after the response to a third was transmitted
C2_Witness ==
    /\ ledger_op = "respond"
    /\ response_log # <<>>
    /\ \E i, j \in 1..Len(shown) :
        /\ shown[i][1] \in answered
        /\ Occurrences(AllResponses, shown[i][1]) = 1
        /\ shown[j][1] \notin answered
        /\ Occurrences(AllRequests, shown[j][1]) = 1

\* how often each callback has been invoked, against the response events
C3_InvokedOncePerResponse ==
    \A cb \in 1..commands :
        /\ Len(invocations[cb]) <= 1
        /\ cb \in DOMAIN assigned =>
              Len(invocations[cb]) = IF assigned[cb] \in responded THEN 1 ELSE 0
        /\ cb \notin DOMAIN assigned => invocations[cb] = <<>>

(***************************************************************************)
(* C3: the continuation of an outbound request that was sent with          *)
(* send_command and flushed is invoked at most once, and exactly once if a *)
(* response event with its request id arrives; a further response event    *)
(* with the same id invokes nothing and changes no state.                  *)
(***************************************************************************)
C3_ContinuationFiresOnce ==
    [][ /\ C3_InvokedOncePerResponse'
        /\ (/\ sender_op' = "got_command_response"
            /\ response_op'[1].request_id \in responded) =>
              /\ sender' = sender
              /\ invocations' = invocations ]_vars

\* a continuation was invoked with a success, and the last response event,
\* with the same request id and a failure status, has not invoked it again
C3_Witness ==
    /\ sender_op = "got_command_response"
    /\ response_op[1].response[1] # "Success"
    /\ \E cb \in DOMAIN assigned :
        /\ assigned[cb] = response_op[1].request_id
        /\ Len(invocations[cb]) = 1
        /\ invocations[cb][1][1] = "Ok"

(***************************************************************************)
(* C4: after send_update calls u1..un with no replicate in between, the    *)
(* pending update is the field-wise merge of u1..un in call order (the     *)
(* last update that sets a field wins), and after calls made back to back  *)
(* the cached value is the value before the first call with that merge     *)
(* applied.                                                                *)
(***************************************************************************)
C4_PendingIsMergeInCallOrder ==
    /\ cell.current_update =
          IF since = <<>> THEN None ELSE Some(MergedInOrder(since))
    /\ \A f \in Fields(component) :
          cell.value[f] = IF LastWrite(Last(since, run), f) # None
                          THEN LastWrite(Last(since, run), f)[1]
                          ELSE base[f]

\* three calls back to back, the third overwriting a field the first set to
\* another value, while a field is set by the second call only
C4_Witness ==
    /\ op = "send_update"
    /\ ~panicked
    /\ Len(since) = 3
    /\ run = 3
    /\ since[1].name # None
    /\ since[3].name # None
    /\ since[1].name # since[3].name
    /\ since[2].current_direction # None
    /\ since[1].current_direction = None
    /\ since[3].current_direction = None
    /\ base.current_direction # since[2].current_direction[1]

(***************************************************************************)
(* C5: on a cell not flushed since, deref_mut after a send_update panics,  *)
(* and send_update after a deref_mut panics.                               *)
(***************************************************************************)
C5_SecondPathFails ==
    [][ /\ (op' = "deref_mut" /\ since # <<>>) => panicked'
        /\ (op' = "send_update" /\ mutated) => panicked' ]_vars

\* deref_mut has panicked on a cell with two updates sent and not flushed
C5_Witness ==
    /\ panicked
    /\ op = "deref_mut"
    /\ Len(since) >= 2

(***************************************************************************)
(* C6: the replicate call after a deref_mut transmits exactly one update,  *)
(* which carries the entire cached value (every field of it) as it is at   *)
(* the flush, and clears the dirty flag; a replicate call on a cell with   *)
(* no deref_mut and no send_update since the last flush transmits nothing. *)
(***************************************************************************)
C6_DirtyCellSendsWholeValueOnce ==
    op = "replicate" =>
        /\ before[1].mutated =>
              /\ sent = <<WholeValue(before[1].cell.value)>>
              /\ ~cell.value_is_dirty
              /\ cell.value = before[1].cell.value
        /\ (~before[1].mutated /\ before[1].since = <<>>) => sent = <<>>

(***************************************************************************)
(* C7: replicate on a cell with a pending update and not dirty transmits   *)
(* exactly the pending update: the fields set by the send_update calls     *)
(* since the last flush, whatever remote updates were applied in between;  *)
(* no pending update is left.                                              *)
(***************************************************************************)
C7_PendingUpdateSentVerbatim ==
    (/\ op = "replicate"
     /\ before[1].cell.current_update # None
     /\ ~before[1].cell.value_is_dirty) =>
        /\ sent = before[1].cell.current_update
        /\ sent = <<MergedInOrder(before[1].since)>>
        /\ cell.current_update = None

\* the flushed cell had a partial update pending, a remote update was applied
\* after the last send_update, and the cached value no longer agreed with it
C7_Witness ==
    /\ op = "replicate"
    /\ Len(before[1].since) >= 2
    /\ before[1].run = 0
    /\ Len(sent) = 1
    /\ sent[1].current_direction = None
    /\ sent[1].name # None
    /\ sent[1].name # Some(cell.value.name)

(***************************************************************************)
(* C8: after any replicate call the dirty flag is false, no pending update *)
(* remains, and the call transmitted at most one update.                   *)
(***************************************************************************)
C8_ReplicateClearsCell ==
    op = "replicate" =>
        /\ ~cell.value_is_dirty
        /\ cell.current_update = None
        /\ Len(sent) <= 1

\* a replicate call on a dirty cell
C8_Witness ==
    /\ op = "replicate"
    /\ before[1].cell.value_is_dirty
    /\ Len(sent) = 1
    /\ ~cell.value_is_dirty

(***************************************************************************)
(* C9: applying an inbound remote update leaves the dirty flag and the     *)
(* pending partial update of the cell as they were.                        *)
(***************************************************************************)
C9_RemoteUpdateKeepsTracking ==
    [][ op' = "apply_remote_update" =>
           /\ cell'.value_is_dirty = cell.value_is_dirty
           /\ cell'.current_update = cell.current_update ]_vars

\* a remote update that changed the value of a cell with a pending update
C9_Witness ==
    /\ op = "apply_remote_update"
    /\ cell.current_update # None
    /\ cell.value # base \/ run = 0
    /\ \E f \in Fields(component) : /\ arg[1][f] # None
                         /\ cell.current_update[1][f] # None
                         /\ arg[1][f] # cell.current_update[1][f]

(***************************************************************************)
(* C10: applying an inbound remote update sets every field present in the  *)
(* update to the update's value and leaves every absent field at its       *)
(* previous cached value, whatever the dirty flag and the pending update.  *)
(***************************************************************************)
C10_RemoteUpdateMergesFieldwise ==
    [][ op' = "apply_remote_update" =>
           \A f \in Fields(component) :
              cell'.value[f] = IF arg'[1][f] # None
                               THEN arg'[1][f][1]
                               ELSE cell.value[f] ]_vars

\* a remote update of the name alone, applied to a dirty cell
C10_Witness ==
    /\ op = "apply_remote_update"
    /\ cell.value_is_dirty
    /\ arg[1].name # None
    /\ arg[1].current_direction = None

(***************************************************************************)
(* The ledger of an entity, read as its two lists; an entity without a     *)
(* ledger object has neither a pending request nor a queued response.      *)
(***************************************************************************)
Requests(storage, e) == IF storage[e] = None THEN <<>> ELSE storage[e][1].requests

Responses(storage, e) == IF storage[e] = None THEN <<>> ELSE storage[e][1].responses

\* the request ids of the entries of seq, in order
Ids(seq) == [i \in 1..Len(seq) |-> seq[i][1]]

\* request ids are handed out in arrival order, so a list of ids is in arrival
\* order when it is strictly ascending
InArrivalOrder(ids) == \A i, j \in 1..Len(ids) : i < j => ids[i] < ids[j]

\* how many entries of seq are the entry
Copies(seq, entry) == Cardinality({i \in 1..Len(seq) : seq[i] = entry})

(***************************************************************************)
(* C11: a ledger entry created by on_request stays in the pending requests *)
(* with its id, payload, requester and labels unchanged across every call  *)
(* whose responder returns nothing for it; it leaves the pending requests  *)
(* and enters the response queue exactly in the respond call whose         *)
(* responder returns a response for it.                                    *)
(***************************************************************************)
C11_PendingUntilAnswered ==
    [][ \A e \in LedgerEntities : \A i \in 1..Len(Requests(ledgers, e)) :
          LET entry == Requests(ledgers, e)[i]
              calls == {k \in 1..Len(shown') :
                          shown'[k][1] = entry[1] /\ shown'[k][3] # None}
          IN  IF ledger_op' = "respond" /\ calls # {}
              THEN /\ Occurrences(Requests(ledgers', e), entry[1]) = 0
                   /\ Occurrences(Responses(ledgers, e), entry[1]) = 0
                   /\ \A k \in calls :
                        Copies(Responses(ledgers', e), <<entry[1], shown'[k][3][1]>>) = 1
              ELSE /\ Copies(Requests(ledgers', e), entry) = 1
                   /\ Occurrences(Requests(ledgers', e), entry[1]) = 1
                   /\ Occurrences(Responses(ledgers', e), entry[1]) = 0 ]_vars

\* a respond call, after an earlier flush has transmitted a response, whose
\* responder declined a request and answered one that arrived after it
C11_Witness ==
    /\ ledger_op = "respond"
    /\ response_log # <<>>
    /\ \E e \in LedgerEntities : \E k, m \in 1..Len(shown) :
        /\ k < m
        /\ shown[k][3] = None
        /\ Occurrences(Requests(ledgers, e), shown[k][1]) = 1
        /\ shown[m][3] # None
        /\ Copies(Responses(ledgers, e), <<shown[m][1], shown[m][3][1]>>) = 1
        /\ Occurrences(Requests(ledgers, e), shown[m][1]) = 0

(***************************************************************************)
(* C12: the flush phase (flush_responses on every ledger, then the pruning *)
(* of the empty ledger objects) never removes or reorders a pending        *)
(* request: the pending requests of every entity are the same list before  *)
(* and after it, frame after frame.                                        *)
(***************************************************************************)
C12_PendingSurvivesFlush ==
    [][ ledger_op' = "flush_responses" =>
          \A e \in LedgerEntities : Requests(ledgers', e) = Requests(ledgers, e) ]_vars

\* a second flush that transmitted a response and pruned the ledger object of
\* one entity while the other entity kept its pending request
C12_Witness ==
    /\ ledger_op = "flush_responses"
    /\ responses_sent # <<>>
    /\ Len(response_log) > Len(responses_sent)
    /\ \E e, f \in LedgerEntities :
        /\ ledgers[f] = None
        /\ Len(Requests(ledgers, e)) >= 1

(***************************************************************************)
(* C13: respond keeps the arrival order.  The responder is called on the   *)
(* pending requests of the entity in arrival order, the responses of one   *)
(* call are appended to the response queue in that order, and the requests *)
(* left pending keep their arrival order, whatever subset is answered and  *)
(* over repeated calls.                                                    *)
(***************************************************************************)
C13_RespondKeepsArrivalOrder ==
    [][ ledger_op' = "respond" =>
          /\ InArrivalOrder(Ids(shown'))
          /\ \E e \in LedgerEntities : Ids(shown') = Ids(Requests(ledgers, e))
          /\ \A e \in LedgerEntities :
              LET old == Responses(ledgers, e)
                  now == Responses(ledgers', e)
              IN  /\ InArrivalOrder(Ids(Requests(ledgers', e)))
                  /\ Len(now) >= Len(old)
                  /\ SubSeq(now, 1, Len(old)) = old
                  /\ InArrivalOrder(Ids(SubSeq(now, Len(old) + 1, Len(now)))) ]_vars

\* a respond call that answered the first and the third of three pending
\* requests and left the second, then a call that answered none
C13_Witness ==
    /\ ledger_op = "respond"
    /\ \E e \in LedgerEntities :
        /\ Len(Responses(ledgers, e)) >= 2
        /\ Len(Requests(ledgers, e)) >= 1
        /\ Len(shown) = Len(Requests(ledgers, e))
        /\ \A k \in 1..Len(shown) : shown[k][3] = None
        /\ \E i, j \in 1..Len(Responses(ledgers, e)) :
            /\ Responses(ledgers, e)[i][1] < Requests(ledgers, e)[1][1]
            /\ Responses(ledgers, e)[j][1] > Requests(ledgers, e)[1][1]

(***************************************************************************)
(* Where the continuations handed to send_command are.                     *)
(***************************************************************************)
\* the continuation is in the buffer of unsent requests of the correlator
InBuffer(correlator, cb) ==
    \E i \in 1..Len(correlator.buffered_requests) :
        correlator.buffered_requests[i][3] = cb

\* the continuation is stored under the id the transport returned for it
Stored(correlator, ids, cb) ==
    /\ cb \in DOMAIN ids
    /\ ids[cb] \in DOMAIN correlator.callbacks
    /\ correlator.callbacks[ids[cb]] = cb

\* every continuation is buffered, stored under its id, or already invoked
AllHeld(correlator, ids, invoked, n) ==
    \A cb \in 1..n :
        \/ InBuffer(correlator, cb)
        \/ Stored(correlator, ids, cb)
        \/ invoked[cb] # <<>>

C15_UnknownResponseDropped ==
    [][ (/\ sender_op' = "got_command_response"
         /\ response_op'[1].request_id \notin DOMAIN sender.callbacks) =>
          /\ sender'.callbacks = sender.callbacks
          /\ sender'.buffered_requests = sender.buffered_requests
          /\ invocations' = invocations
          /\ ~panicked' ]_vars

\* a response event with an id the transport has not returned yet, while a
\* continuation is stored and a request is buffered
C15_Witness ==
    /\ sender_op = "got_command_response"
    /\ response_op[1].request_id >= next_outgoing_id
    /\ response_op[1].response[1] = "Success"
    /\ DOMAIN sender.callbacks # {}
    /\ sender.buffered_requests # <<>>
    /\ \A cb \in 1..commands : invocations[cb] = <<>>

\* a continuation leaves the stored continuations only in the step of a
\* response event with its id
RemovedOnlyByResponse ==
    \A cb \in 1..commands :
        (Stored(sender, assigned, cb) /\ ~Stored(sender', assigned', cb)) =>
            /\ sender_op' = "got_command_response"
            /\ response_op'[1].request_id = assigned[cb]

\* the transport returns, for each request of the flush, an id under which no
\* continuation is stored and which it returns for no other request of the flush
FlushWithUnusedIds ==
    sender_op' = "flush_requests" =>
        /\ \A i \in 1..Len(requests_sent') :
              requests_sent'[i][1] \notin DOMAIN sender.callbacks
        /\ \A i, j \in 1..Len(requests_sent') :
              i # j => requests_sent'[i][1] # requests_sent'[j][1]

(***************************************************************************)
(* C16, as claimed: a continuation is never lost.  From send_command on,   *)
(* every continuation is buffered, stored under the id the transport       *)
(* returned for it, or already invoked; a stored continuation is removed   *)
(* only by the arrival of a response event with its id, never by           *)
(* flush_requests, whatever ids the transport returns.                     *)
(***************************************************************************)
C16_ContinuationNeverLost ==
    [][ /\ AllHeld(sender', assigned', invocations', commands')
        /\ RemovedOnlyByResponse ]_vars

(***************************************************************************)
(* C16, amended: the same, as long as the transport returns for each       *)
(* request an id under which no continuation is stored at that moment.     *)
(***************************************************************************)
C16_NeverLostWithUnusedIds ==
    [][ (AllHeld(sender, assigned, invocations, commands) /\ FlushWithUnusedIds) =>
          /\ AllHeld(sender', assigned', invocations', commands')
          /\ RemovedOnlyByResponse ]_vars

\* a flush has stored a continuation under an id that an earlier continuation,
\* since invoked, was stored under, next to one that is still stored
C16_Witness ==
    /\ sender_op = "flush_requests"
    /\ requests_sent # <<>>
    /\ AllHeld(sender, assigned, invocations, commands)
    /\ \E a, b, c \in 1..commands :
        /\ invocations[a] # <<>>
        /\ Stored(sender, assigned, b)
        /\ Stored(sender, assigned, c)
        /\ b < c
        /\ assigned[c] = assigned[a]
        /\ requests_sent[1][1] = assigned[c]

(***************************************************************************)
(* C17: each request buffered by send_command is transmitted exactly once, *)
(* by the first flush_requests after it, in the order it was buffered;     *)
(* after flush_requests the buffer is empty and each continuation is       *)
(* stored under the id the transport returned for its request; no request  *)
(* is transmitted a second time.                                           *)
(***************************************************************************)
C17_TransmittedOnceInOrder ==
    [][ /\ sender_op' = "flush_requests" =>
            /\ sender'.buffered_requests = <<>>
            /\ Len(requests_sent') = Len(sender.buffered_requests)
            /\ \A i \in 1..Len(sender.buffered_requests) :
                /\ requests_sent'[i][2] = sender.buffered_requests[i][1]
                /\ requests_sent'[i][3] = sender.buffered_requests[i][2]
                /\ requests_sent'[i][1] \in DOMAIN sender'.callbacks
                /\ sender'.callbacks[requests_sent'[i][1]] =
                      sender.buffered_requests[i][3]
                /\ assigned'[sender.buffered_requests[i][3]] = requests_sent'[i][1]
        /\ sender_op' # "flush_requests" => request_log' = request_log
        /\ Len(request_log') = Cardinality(DOMAIN assigned')
        /\ \A cb \in 1..commands' :
            /\ InBuffer(sender', cb) <=> cb \notin DOMAIN assigned'
            /\ cb \in DOMAIN assigned' =>
                  Cardinality({i \in 1..Len(request_log') :
                                  request_log'[i] = assigned'[cb]}) = 1 ]_vars

\* a second flush that transmitted two requests in the order they were
\* buffered, for two different entities
C17_Witness ==
    /\ sender_op = "flush_requests"
    /\ Len(requests_sent) = 2
    /\ Len(request_log) = 3
    /\ requests_sent[1][1] < requests_sent[2][1]
    /\ requests_sent[1][2] # requests_sent[2][2]
    /\ sender.buffered_requests = <<>>

(***************************************************************************)
(* C18: flush_responses transmits every queued response, each with the id  *)
(* of the request it answers, in queue order, and leaves the response      *)
(* queue empty and the pending requests unchanged.                         *)
(***************************************************************************)
C18_FlushTransmitsQueue ==
    [][ ledger_op' = "flush_responses" =>
          /\ responses_sent' = AllResponses
          /\ \A i \in 1..Len(responses_sent') :
                /\ responses_sent'[i][1] \in answered
                /\ responses_sent'[i][2] \in CommandResponse
                /\ Occurrences(response_log, responses_sent'[i][1]) = 0
          /\ \A e \in LedgerEntities :
                /\ Responses(ledgers', e) = <<>>
                /\ Ids(Requests(ledgers', e)) = Ids(Requests(ledgers, e)) ]_vars

\* a flush that transmitted two responses queued against arrival order, while
\* a request that arrived between the two requests they answer stays pending
C18_Witness ==
    /\ ledger_op = "flush_responses"
    /\ Len(responses_sent) = 2
    /\ responses_sent[1][1] > responses_sent[2][1]
    /\ \E e \in LedgerEntities :
        /\ Len(Requests(ledgers, e)) = 1
        /\ Responses(ledgers, e) = <<>>
        /\ Requests(ledgers, e)[1][1] > responses_sent[2][1]
        /\ Requests(ledgers, e)[1][1] < responses_sent[1][1]

(***************************************************************************)
(* C19: in the flush phase no component update is transmitted for an       *)
(* entity whose authority marker for the component type is not set, even   *)
(* if its cell is fully dirty or has a pending update.                     *)
(***************************************************************************)
C19_NoUpdateWithoutAuthority ==
    dispatcher_op = "replicate" =>
        \A i \in 1..Len(updates_sent) : updates_sent[i][1] \in authoritative

\* a flush that transmitted the update of the entity with authority and
\* nothing for the other entity, whose cell is dirty since before the
\* authority over it was lost
C19_Witness ==
    /\ dispatcher_op = "replicate"
    /\ Len(updates_sent) = 1
    /\ \E e \in DispatcherEntities :
        /\ e \notin authoritative
        /\ cells[e] # None
        /\ cells[e][1].value_is_dirty
        /\ updates_sent[1][1] # e
        /\ cells[updates_sent[1][1]] # None
        /\ ~cells[updates_sent[1][1]][1].value_is_dirty

\* the last call was the replicate of the dispatcher
FlushPhaseDone ==
    /\ dispatcher_op = "replicate"
    /\ sender_op = "flush_requests"
    /\ ledger_op = "flush_responses"

(***************************************************************************)
(* C20: command traffic does not depend on authority.  The flush phase     *)
(* transmits every buffered outbound command request and every queued      *)
(* command response, whether or not the authority marker of the entity     *)
(* concerned is set.                                                       *)
(***************************************************************************)
C20_CommandTrafficIgnoresAuthority ==
    [][ FlushPhaseDone' =>
          /\ Len(requests_sent') = Len(sender.buffered_requests)
          /\ \A i \in 1..Len(sender.buffered_requests) :
                /\ requests_sent'[i][2] = sender.buffered_requests[i][1]
                /\ requests_sent'[i][3] = sender.buffered_requests[i][2]
          /\ sender'.buffered_requests = <<>>
          /\ \A e \in LedgerEntities : \A i \in 1..Len(Responses(ledgers, e)) :
                Copies(responses_sent', Responses(ledgers, e)[i]) = 1
          /\ Len(responses_sent') = Len(AllResponses)
          /\ \A e \in LedgerEntities : Responses(ledgers', e) = <<>> ]_vars

\* a flush, while no entity has its authority marker set, that transmitted a
\* command response and two command requests
C20_Witness ==
    /\ FlushPhaseDone
    /\ authoritative = {}
    /\ Len(requests_sent) = 2
    /\ requests_sent[1][2] # requests_sent[2][2]
    /\ Len(responses_sent) = 1

(***************************************************************************)
(* The reader.                                                             *)
(***************************************************************************)
\* C21: the reader applies the ops of a batch strictly in the order they were
\* delivered: the world after process on a batch is the world that applying
\* its ops one by one, in list order, gives; no op is moved before another and
\* no ops are grouped.
C21_BatchAppliedInDeliveredOrder ==
    reader_op = "process" => stepwise = Some(World)

\* a batch whose ops give another world in another order has been processed
\* and has left a cell behind
C21_Witness ==
    /\ reader_op = "process"
    /\ order_mattered
    /\ ~panicked
    /\ \E e \in DispatcherEntities : cells[e] # None

\* C22: an inbound op whose payload fails to decode does not abort the loop of
\* the reader: the world after the batch is the world its other ops give, the
\* op is skipped without a change of state and the ops after it are processed.
C22_DecodeFailureSkipped ==
    reader_op = "process" => skipped = Some(World)

\* C23: an add-component, remove-component, component-update or
\* authority-change op that names a component type that is not registered is
\* ignored without an error, and so is an op of another kind: the world after
\* the batch (identity map, entities, cells, authority markers) is the world
\* the batch gives without these ops, and the ledgers and the correlator stay
\* as they are.
C23_UnregisteredAndOtherOpsIgnored ==
    [][reader_op' = "process" =>
          /\ without_ignored' = Some(World')
          /\ UNCHANGED <<ledgers, sender>>]_vars

\* a batch of an op of another kind and an op that names an unregistered type
\* and an entity that was never added has been processed without a panic
C23_Witness ==
    /\ reader_op = "process"
    /\ ignored
    /\ spatial_to_specs_entity = <<>>
    /\ ~panicked

\* C24: the identity map holds exactly the entity ids that have been added and
\* not since removed, each mapped to a live entity: add-entity creates the
\* entity and its entry, remove-entity deletes the entity and drops the entry.
C24_MappingHoldsPresentEntities ==
    ~panicked =>
        /\ DOMAIN spatial_to_specs_entity = added
        /\ \A id \in DOMAIN spatial_to_specs_entity :
              /\ spatial_to_specs_entity[id] \in 1..entities.created
              /\ spatial_to_specs_entity[id] \notin entities.killed

\* C25: an inbound command-request op for a registered component type puts the
\* request on the ledger of the entity it names, creating the ledger when the
\* entity has none, so that a later respond on the entity sees it.
C25_RequestReachesLedger ==
    (reader_op = "process" /\ ~panicked) =>
        \A request \in delivered :
            /\ ledgers[spatial_to_specs_entity[request[1]]] # None
            /\ request[2] \in
                  Ids(ledgers[spatial_to_specs_entity[request[1]]][1].requests)

\* C26: an inbound command-response op is routed to the correlator of its
\* component type within the batch: the callback stored under its request id
\* has been taken out and invoked when process returns.
C26_ResponseReachesCorrelator ==
    (reader_op = "process" /\ ~panicked) =>
        \A request_id \in routed :
            /\ request_id \notin DOMAIN sender.callbacks
            /\ \E cb \in DOMAIN assigned :
                  assigned[cb] = request_id /\ invocations[cb] # <<>>

(***************************************************************************)
(* The registry and the writer.                                            *)
(***************************************************************************)
\* C27: registering a component type is idempotent: a registration never
\* fails, it leaves exactly one dispatcher under the id of the type, and every
\* other entry of the registry as it was; registering a type that is
\* registered leaves the registry with the entries it had.
C27_RegisteringIsIdempotent ==
    [][registrations' = registrations + 1 =>
          LET T      == registering'[1]
              before_ == component_registry.interfaces
              after  == component_registry'.interfaces
          IN  /\ ~panicked'
              /\ DOMAIN after = DOMAIN before_ \cup {T}
              /\ after[T] = ComponentDispatcher(T)
              /\ \A id \in DOMAIN before_ \ {T} : after[id] = before_[id]
              /\ Cardinality({i \in 1..Len(interfaces_iter(component_registry')) :
                     interfaces_iter(component_registry')[i] = ComponentDispatcher(T)}) = 1
              /\ T \in DOMAIN before_ => after = before_]_vars

\* a type has been registered again while another type was registered
C27_Witness ==
    /\ registrations > Cardinality(DOMAIN component_registry.interfaces)
    /\ Cardinality(DOMAIN component_registry.interfaces) >= 2

\* C28: within one run every iteration over the registered dispatchers visits
\* them in the same order: two runs of the writer over the same set of
\* registered types call replicate on the types in the same order.
C28_SameOrderEveryRun ==
    (/\ visited # None
     /\ visited_before # None
     /\ {visited[1][i] : i \in 1..Len(visited[1])}
          = {visited_before[1][i] : i \in 1..Len(visited_before[1])})
    => visited = visited_before

\* the writer has run twice over three registered types, one of them
\* registered more than once
C28_Witness ==
    /\ visited # None
    /\ visited_before # None
    /\ Len(visited[1]) = Cardinality(ComponentIds)
    /\ Len(visited_before[1]) = Cardinality(ComponentIds)
    /\ registrations > Cardinality(DOMAIN component_registry.interfaces)

\* C29: after every flush of the ledgers a ledger exists only if it holds a
\* pending request or an unsent response: the ledgers whose request queue and
\* response queue are both empty have been removed.
C29_NoEmptyLedgerAfterFlush ==
    ledger_op = "flush_responses" =>
        \A e \in LedgerEntities :
            ledgers[e] # None =>
                \/ Len(ledgers[e][1].requests) > 0
                \/ Len(ledgers[e][1].responses) > 0

\* a flush has transmitted the responses of a ledger whose requests were all
\* answered, and no entity holds a ledger after it
C29_Witness ==
    /\ ledger_op = "flush_responses"
    /\ responses_sent # <<>>
    /\ \A e \in LedgerEntities : ledgers[e] = None

\* the place of a component type in the order of a run of the writer, and the
\* place of a kind of transmission in the order update, request, response
PlaceOf(order, T) == CHOOSE i \in 1..Len(order) : order[i] = T

KindPlace(kind) ==
    CASE kind = "update" -> 1 [] kind = "request" -> 2 [] kind = "response" -> 3

\* the entries of the wire of a kind
OfKind(seq, kind) == SelectSeq(seq, LAMBDA t : t[2] = kind)

\* the cells that have something to transmit, and the responses queued
DueCells ==
    {e \in DispatcherEntities :
        /\ cells[e] # None
        /\ e \in authoritative
        /\ cells[e][1].value_is_dirty \/ cells[e][1].current_update # None}

QueuedResponses ==
    Concat([i \in 1..Len(JoinOrder(LedgerEntities)) |->
               Responses(ledgers, JoinOrder(LedgerEntities)[i])])

\* C30: in a run of the writer the dispatchers transmit one after the other,
\* in the order of the registry, and each transmits in this order: the updates
\* of all cells of its type that are due, then all buffered command requests,
\* then all queued command responses; the empty ledgers are pruned only after
\* that, so that no queued response is lost to the pruning.
C30_FlushOrder ==
    [][FlushPhaseDone' =>
          /\ \A i, j \in 1..Len(wire') :
                i < j =>
                    /\ PlaceOf(visited'[1], wire'[i][1]) <= PlaceOf(visited'[1], wire'[j][1])
                    /\ wire'[i][1] = wire'[j][1] =>
                          KindPlace(wire'[i][2]) <= KindPlace(wire'[j][2])
          /\ Len(OfKind(wire', "update")) = Cardinality(DueCells)
          /\ Len(OfKind(wire', "request")) = Len(sender.buffered_requests)
          /\ Len(OfKind(wire', "response")) = Len(QueuedResponses)
          /\ updates_sent' = replicate_cells(component, cells, authoritative).transmitted
          /\ [k \in 1..Len(requests_sent') |-> requests_sent'[k][3]]
                = [k \in 1..Len(sender.buffered_requests) |->
                      sender.buffered_requests[k][2]]
          /\ responses_sent' = QueuedResponses
          /\ \A e \in LedgerEntities :
                ledgers'[e] # None => Len(ledgers'[e][1].requests) > 0]_vars

\* a run of the writer has transmitted the update of a cell, a command request
\* and the response of a ledger that it then pruned
C30_Witness ==
    /\ FlushPhaseDone
    /\ \A kind \in {"update", "request", "response"} : OfKind(wire, kind) # <<>>
    /\ \A e \in LedgerEntities : ledgers[e] = None

(***************************************************************************)
(* C31: a component update for a registered type that arrives for an       *)
(* entity without a cell of that type fails: process panics, the update is *)
(* not passed over, and the entity has no cell afterwards.                 *)
(***************************************************************************)
C31_UpdateWithoutCellFails ==
    \A id \in update_missed :
        /\ panicked
        /\ cells[spatial_to_specs_entity[id]] = None

C31_Witness ==
    /\ reader_op = "process"
    /\ update_missed # {}
    /\ entities.created > 0

(***************************************************************************)
(* C33: an op that names an entity id without an identity mapping fails    *)
(* when it is a remove-entity or when its component type is registered,    *)
(* and is ignored when its component type is not registered: in the first  *)
(* two cases process panics, in the third the world is the one the batch   *)
(* gives without the op.                                                   *)
(***************************************************************************)
C33_UnmappedEntityFailsIfRegistered ==
    reader_op = "process" =>
        /\ unmapped \cap {"RemoveEntity", "registered"} # {} => panicked
        /\ "unregistered" \in unmapped => without_ignored = Some(World)

(***************************************************************************)
(* C34: the exclusion of the two update paths ends with the flush: a       *)
(* deref_mut or a send_update called right after replicate succeeds,       *)
(* whichever path the cell was changed by before the replicate; deref_mut  *)
(* leaves the cell dirty, send_update leaves its update pending.           *)
(***************************************************************************)
C34_BothPathsOpenAfterFlush ==
    after_flush # None =>
        /\ ~panicked
        /\ op = "deref_mut" =>
              cell.value_is_dirty /\ cell.current_update = None
        /\ op = "send_update" =>
              ~cell.value_is_dirty /\ cell.current_update = arg

\* send_update has succeeded right after the flush of a cell that was changed
\* through deref_mut
C34_Witness ==
    /\ after_flush = Some("deref_mut")
    /\ op = "send_update"
    /\ ~panicked
    /\ cell.current_update # None

(***************************************************************************)
(* C36: a deref_mut or send_update call that fails leaves the cell as it   *)
(* was: value, dirty flag and pending update are those before the call,    *)
(* and the update of the failing send_update is merged into neither the    *)
(* value nor the pending update.                                           *)
(***************************************************************************)
C36_FailedCallLeavesCell ==
    [][(~panicked /\ panicked') =>
          /\ op' \in {"deref_mut", "send_update"}
          /\ cell'.value = cell.value
          /\ cell'.value_is_dirty = cell.value_is_dirty
          /\ cell'.current_update = cell.current_update]_vars

\* send_update has failed on a dirty cell with an update that changes a field
\* of the value
C36_Witness ==
    /\ panicked
    /\ op = "send_update"
    /\ cell.value_is_dirty
    /\ cell.current_update = None
    /\ merge(component, cell.value, arg[1]) # cell.value

(***************************************************************************)
(* C38: when a response event matches, the entry of the callback is        *)
(* removed from the correlator before the callback runs: the correlator    *)
(* the callback finds is the one before the call without the entry of its  *)
(* own id, and the command the callback sends is appended to the buffer of *)
(* that correlator, which keeps its entries.                               *)
(***************************************************************************)
C38_EntryRemovedBeforeCallbackRuns ==
    [][found' # None =>
          LET id == response_op'[1].request_id
          IN  /\ id \in DOMAIN sender.callbacks
              /\ id \notin DOMAIN found'[1].callbacks
              /\ found'[1].callbacks = HashMap_remove(sender.callbacks, id)
              /\ found'[1].buffered_requests = sender.buffered_requests
              /\ sender'.callbacks = found'[1].callbacks
              /\ Len(sender'.buffered_requests) = Len(sender.buffered_requests) + 1
              /\ SubSeq(sender'.buffered_requests, 1, Len(sender.buffered_requests))
                    = sender.buffered_requests
              /\ sender'.buffered_requests[Len(sender'.buffered_requests)][3]
                    = commands']_vars

\* a callback has run while another callback was stored, and the command it
\* sent is in the buffer
C38_Witness ==
    /\ found # None
    /\ found[1].callbacks # <<>>
    /\ sender.buffered_requests # <<>>
    /\ response_op[1].request_id \notin DOMAIN sender.callbacks

(***************************************************************************)
(* C35: with the phases of a frame one after the other, the flush at the   *)
(* end of a frame transmits every response a respond call produced and     *)
(* every request a send_command call buffered during the frame: after the  *)
(* run of the writer no ledger holds a response and the buffer of the      *)
(* correlator is empty, every request id ever answered has had its         *)
(* response handed to the connection, once, and every command ever sent    *)
(* has been handed to the connection and has its callback stored or run.   *)
(***************************************************************************)
C35_FrameFlushesAllCommandTraffic ==
    FlushPhaseDone =>
        /\ \A e \in LedgerEntities : Responses(ledgers, e) = <<>>
        /\ sender.buffered_requests = <<>>
        /\ \A id \in answered : Occurrences(response_log, id) = 1
        /\ \A i \in 1..Len(response_log) : response_log[i][1] \in answered
        /\ Len(request_log) = commands
        /\ DOMAIN assigned = 1..commands

\* the flush of a frame in which two requests arrived and were answered and
\* two commands were sent
C35_Witness ==
    /\ FlushPhaseDone
    /\ Len(responses_sent) = 2
    /\ Len(requests_sent) = 2
    /\ response_log = responses_sent
    /\ commands = 2


\* C32: once a remove-component or a remove-entity op has been processed for
\* an entity, its cell is destroyed, and no later run of the writer
\* transmits a component update for it, whatever the cell held when the op
\* arrived.
C32_RemovedCellNeverFlushed ==
    /\ \A h \in removed : cells[h] = None
    /\ dispatcher_op = "replicate" =>
          \A i \in 1..Len(updates_sent) : updates_sent[i][1] \notin removed

\* C37: an add-component op for an entity that has a cell of the type leaves
\* a fresh cell that holds the inbound value, its flag clear and no update
\* pending; the run of the writer that follows transmits nothing for the
\* entity, though the old cell held a change not yet flushed.
C37_AddComponentReplacesCell ==
    [][/\ dispatcher_op' = "process" =>
             \A h \in replaced' :
                 cells'[h] # None => cells'[h][1] = new(OpData(component))
       /\ dispatcher_op = "process" /\ dispatcher_op' = "replicate" =>
             \A i \in 1..Len(updates_sent') : updates_sent'[i][1] \notin replaced]_vars

C37_Witness ==
    /\ dispatcher_op = "process"
    /\ ~panicked
    /\ \E h \in replaced :
          /\ h \in authoritative
          /\ cells[h] = Some(new(OpData(component)))


=============================================================================
